---- MODULE Spec2Model ----
(***************************************************************************)
(* A model of conduit's incremental build cache: the dependency graph      *)
(* (core/cache/layers), the content tracker, the parse store, the          *)
(* generation ledger and the cache manager that coordinates them, with     *)
(* the route generator's needsRegeneration on top.                         *)
(*                                                                         *)
(* Go maps are functions whose DOMAIN is the key set; Go slices are        *)
(* sequences (a nil slice and an empty slice are both << >>: the code      *)
(* only ranges over them and takes their length).  Iterating a Go map      *)
(* visits the keys in an unspecified order: every such loop takes the      *)
(* order as a parameter, and the actions draw it from all permutations.    *)
(***************************************************************************)
EXTENDS Integers, Sequences, FiniteSets, TLC

----------------------------------------------------------------------------
(* Bounds and input sets                                                   *)

\* The source files the environment holds (route.go files)
Files == {"a", "b", "d"}

\* Third-party import identifiers a parsed file may name
Externals == {"x"}

\* Longest dependency / import list drawn as an input
MaxDeps == 2

\* Calls and file-system events explored from each initial state
MaxSteps == 3

\* File contents: byte strings; Size is the length
Contents == {<<1>>, <<2, 2>>}

----------------------------------------------------------------------------
(* Generic helpers for maps and slices                                     *)

Has(m, k) == k \in DOMAIN m

Put(m, k, v) == [x \in (DOMAIN m) \cup {k} |-> IF x = k THEN v ELSE m[x]]

Delete(m, k) == [x \in (DOMAIN m) \ {k} |-> m[x]]

EmptyMap == << >>

Range(s) == {s[i] : i \in 1..Len(s)}

SeqsUpTo(S, n) == UNION {[1..k -> S] : k \in 0..n}

Perms(S) == {p \in [1..Cardinality(S) -> S] : \A i, j \in 1..Cardinality(S) : i # j => p[i] # p[j]}

----------------------------------------------------------------------------
(* Layer 3: the dependency graph                                           *)

VARIABLES
    nodes,      \* DependencyGraph.nodes: path -> DependencyNode
    ret         \* what the last call returned, with the call itself

\* &models.DependencyNode{Dependencies: []string{}, Dependents: []string{}}
NewDependencyNode == [Dependencies |-> << >>, Dependents |-> << >>, ContentHash |-> ""]

removeFromSlice(slice, item) == SelectSeq(slice, LAMBDA s : s # item)

addDependentRelationship(n, dependencyPath, dependentPath) ==
    LET n1 == IF Has(n, dependencyPath) THEN n
              ELSE Put(n, dependencyPath, NewDependencyNode)
    IN  IF dependentPath \in Range(n1[dependencyPath].Dependents)
        THEN n1
        ELSE [n1 EXCEPT ![dependencyPath].Dependents = Append(@, dependentPath)]

removeDependentRelationship(n, dependencyPath, dependentPath) ==
    IF Has(n, dependencyPath)
    THEN [n EXCEPT ![dependencyPath].Dependents = removeFromSlice(@, dependentPath)]
    ELSE n

\* for _, dep := range deps { dg.removeDependentRelationship(dep, filePath) }
RECURSIVE removeEach(_, _, _)
removeEach(n, deps, filePath) ==
    IF deps = << >> THEN n
    ELSE removeEach(removeDependentRelationship(n, Head(deps), filePath), Tail(deps), filePath)

\* for _, dep := range deps { dg.addDependentRelationship(dep, filePath) }
RECURSIVE addEach(_, _, _)
addEach(n, deps, filePath) ==
    IF deps = << >> THEN n
    ELSE addEach(addDependentRelationship(n, Head(deps), filePath), Tail(deps), filePath)

\* Mutant of UpdateNode: the old dependency relationships are not removed
UpdateNode_keepOld(n, filePath, dependencies) ==
    LET n1 == IF Has(n, filePath) THEN n ELSE Put(n, filePath, NewDependencyNode)
        n3 == [n1 EXCEPT ![filePath].Dependencies = dependencies]
    IN  addEach(n3, dependencies, filePath)

UpdateNode(n, filePath, dependencies) ==
    LET n1 == IF Has(n, filePath) THEN n ELSE Put(n, filePath, NewDependencyNode)
        n2 == removeEach(n1, n1[filePath].Dependencies, filePath)
        n3 == [n2 EXCEPT ![filePath].Dependencies = dependencies]
    IN  addEach(n3, dependencies, filePath)

\* for _, dependent := range node.Dependents { strip filePath from its Dependencies }
RECURSIVE stripFromDependents(_, _, _)
stripFromDependents(n, dependents, filePath) ==
    IF dependents = << >> THEN n
    ELSE LET d == Head(dependents)
             n1 == IF Has(n, d)
                   THEN [n EXCEPT ![d].Dependencies = removeFromSlice(@, filePath)]
                   ELSE n
         IN  stripFromDependents(n1, Tail(dependents), filePath)

\* Mutant of RemoveNode: the dependents' dependency lists are not stripped
RemoveNode_noStrip(n, filePath) ==
    IF ~Has(n, filePath) THEN n
    ELSE Delete(removeEach(n, n[filePath].Dependencies, filePath), filePath)

RemoveNode(n, filePath) ==
    IF ~Has(n, filePath) THEN n
    ELSE LET n1 == removeEach(n, n[filePath].Dependencies, filePath)
             n2 == stripFromDependents(n1, n1[filePath].Dependents, filePath)
         IN  Delete(n2, filePath)

\* A ParsedFile, as far as the cache reads it: Dependencies (nil or not) with
\* the import paths of its LocalImports and its ExternalImports.
ParsedFile(isNil, localImports, externalImports) ==
    [DependenciesNil |-> isNil, LocalImports |-> localImports, ExternalImports |-> externalImports]

\* BuildGraph's second pass, over the map's keys in the order `order`
RECURSIVE buildEdges(_, _, _)
buildEdges(n, parsedFiles, order) ==
    IF order = << >> THEN n
    ELSE LET filePath == Head(order)
             parsed == parsedFiles[filePath]
             n1 == IF parsed.DependenciesNil THEN n
                   ELSE [addEach(n, parsed.LocalImports, filePath)
                            EXCEPT ![filePath].Dependencies = parsed.LocalImports]
         IN  buildEdges(n1, parsedFiles, Tail(order))

BuildGraph(parsedFiles, order) ==
    buildEdges([f \in DOMAIN parsedFiles |-> NewDependencyNode], parsedFiles, order)

GraphGetDependencies(n, filePath) == IF Has(n, filePath) THEN n[filePath].Dependencies ELSE << >>

GraphGetDependents(n, filePath) == IF Has(n, filePath) THEN n[filePath].Dependents ELSE << >>

\* dfsVisitDependents threads the visited set and the affected slice; the inner
\* loop over node.Dependents is dfsDependentsLoop.
RECURSIVE dfsVisitDependents(_, _, _, _)
RECURSIVE dfsDependentsLoop(_, _, _, _)
dfsVisitDependents(n, filePath, visited, affected) ==
    IF filePath \in visited THEN [visited |-> visited, affected |-> affected]
    ELSE IF ~Has(n, filePath) THEN [visited |-> visited \cup {filePath}, affected |-> affected]
    ELSE dfsDependentsLoop(n, n[filePath].Dependents, visited \cup {filePath}, affected)

dfsDependentsLoop(n, dependents, visited, affected) ==
    IF dependents = << >> THEN [visited |-> visited, affected |-> affected]
    ELSE LET r == dfsVisitDependents(n, Head(dependents), visited, Append(affected, Head(dependents)))
         IN  dfsDependentsLoop(n, Tail(dependents), r.visited, r.affected)

\* Mutant of GetAffectedFiles: the direct dependents only, no traversal
GetAffectedFiles_direct(n, changedFile) == GraphGetDependents(n, changedFile)

GetAffectedFiles(n, changedFile) == dfsVisitDependents(n, changedFile, {}, << >>).affected

\* dfsFindCycles threads visited and recursionStack (Go maps, shared by every
\* call) and passes path by value; it returns the cycle found, << >> for nil.
\* A return with a cycle leaves recursionStack as it is (no clean-up on that path).
RECURSIVE dfsFindCycles(_, _, _, _, _)
RECURSIVE dfsDependenciesLoop(_, _, _, _, _, _)
dfsFindCycles(n, filePath, visited, recursionStack, path) ==
    IF ~Has(n, filePath)
    THEN [visited |-> visited \cup {filePath}, recursionStack |-> recursionStack \ {filePath},
          cycle |-> << >>]
    ELSE dfsDependenciesLoop(n, filePath, n[filePath].Dependencies, visited \cup {filePath},
                             recursionStack \cup {filePath}, Append(path, filePath))

\* Mutant of dfsDependenciesLoop: the whole path is returned as the cycle
dfsDependenciesLoop_wholePath(n, filePath, deps, visited, recursionStack, path) ==
    IF deps = << >>
    THEN [visited |-> visited, recursionStack |-> recursionStack \ {filePath}, cycle |-> << >>]
    ELSE LET dep == Head(deps) IN
         IF dep \notin visited
         THEN LET r == dfsFindCycles(n, dep, visited, recursionStack, path)
              IN  IF r.cycle # << >> THEN r
                  ELSE dfsDependenciesLoop(n, filePath, Tail(deps), r.visited, r.recursionStack, path)
         ELSE IF dep \in recursionStack /\ dep \in Range(path)
         THEN [visited |-> visited, recursionStack |-> recursionStack, cycle |-> path]
         ELSE dfsDependenciesLoop(n, filePath, Tail(deps), visited, recursionStack, path)

dfsDependenciesLoop(n, filePath, deps, visited, recursionStack, path) ==
    IF deps = << >>
    THEN [visited |-> visited, recursionStack |-> recursionStack \ {filePath}, cycle |-> << >>]
    ELSE LET dep == Head(deps) IN
         IF dep \notin visited
         THEN LET r == dfsFindCycles(n, dep, visited, recursionStack, path)
              IN  IF r.cycle # << >> THEN r
                  ELSE dfsDependenciesLoop(n, filePath, Tail(deps), r.visited, r.recursionStack, path)
         ELSE IF dep \in recursionStack /\ dep \in Range(path)
         THEN LET cycleStart == CHOOSE i \in 1..Len(path) :
                                    path[i] = dep /\ \A j \in 1..(i - 1) : path[j] # dep
              IN  [visited |-> visited, recursionStack |-> recursionStack,
                   cycle |-> SubSeq(path, cycleStart, Len(path))]
         ELSE dfsDependenciesLoop(n, filePath, Tail(deps), visited, recursionStack, path)

\* DetectCycles' loop over the map's keys, in the order `order`
RECURSIVE detectLoop(_, _, _, _, _)
detectLoop(n, order, visited, recursionStack, cycles) ==
    IF order = << >> THEN cycles
    ELSE IF Head(order) \in visited
    THEN detectLoop(n, Tail(order), visited, recursionStack, cycles)
    ELSE LET r == dfsFindCycles(n, Head(order), visited, recursionStack, << >>)
         IN  detectLoop(n, Tail(order), r.visited, r.recursionStack,
                        IF r.cycle # << >> THEN Append(cycles, r.cycle) ELSE cycles)

\* Mutant of DetectCycles: the search starts from the first key only
DetectCycles_firstKey(n, order) ==
    detectLoop(n, IF order = << >> THEN << >> ELSE <<Head(order)>>, {}, {}, << >>)

DetectCycles(n, order) == detectLoop(n, order, {}, {}, << >>)

\* inDegree[dependent]-- on a Go map: a missing key reads 0 and is stored as -1
decrement(inDegree, k) == Put(inDegree, k, (IF Has(inDegree, k) THEN inDegree[k] ELSE 0) - 1)

\* Kahn's inner loop over node.Dependents
RECURSIVE reduceDependents(_, _, _)
reduceDependents(dependents, inDegree, queue) ==
    IF dependents = << >> THEN [inDegree |-> inDegree, queue |-> queue]
    ELSE LET d == Head(dependents)
             in1 == decrement(inDegree, d)
         IN  reduceDependents(Tail(dependents), in1,
                              IF in1[d] = 0 THEN Append(queue, d) ELSE queue)

\* Kahn's outer loop: for len(queue) > 0
RECURSIVE processQueue(_, _, _, _)
processQueue(n, inDegree, queue, result) ==
    IF queue = << >> THEN result
    ELSE LET current == Head(queue)
             r == IF Has(n, current)
                  THEN reduceDependents(n[current].Dependents, inDegree, Tail(queue))
                  ELSE [inDegree |-> inDegree, queue |-> Tail(queue)]
         IN  processQueue(n, r.inDegree, r.queue, Append(result, current))

\* The order Kahn's algorithm produces, before the length check
kahnOrder(n, order) ==
    processQueue(n, [f \in DOMAIN n |-> Len(n[f].Dependencies)],
                 SelectSeq(order, LAMBDA f : Len(n[f].Dependencies) = 0), << >>)

\* Mutant of GetTopologicalOrder: the length check for cycles is missing
GetTopologicalOrder_noCheck(n, order) == [result |-> kahnOrder(n, order), err |-> FALSE]

\* GetTopologicalOrder: (result, nil) or (nil, "dependency graph contains cycles")
GetTopologicalOrder(n, order) ==
    LET result == kahnOrder(n, order)
    IN  IF Len(result) # Cardinality(DOMAIN n)
        THEN [result |-> << >>, err |-> TRUE]
        ELSE [result |-> result, err |-> FALSE]

----------------------------------------------------------------------------
(* The file system the cache observes                                      *)

VARIABLES
    fs,         \* path -> [exists, content, mtime]: what os.Stat and reading the file give
    outputs     \* source paths whose generated output file exists on disk

\* md5 of the bytes, in hex: distinct contents have distinct digests
calculateFileHash(content) == <<"md5", content>>

\* stat.Size()
Size(content) == Len(content)

----------------------------------------------------------------------------
(* Layer 1: the content tracker                                            *)

VARIABLES
    entries     \* ContentCache.entries: path -> ContentEntry

\* The I/O failures a call of UpdateContent can meet: none, os.Stat failing with
\* an error other than not-exist, or opening/reading the file for the hash failing
Faults == {"none", "stat", "hash"}

createContentEntry(stat) ==
    [ContentHash |-> calculateFileHash(stat.content), ModTime |-> stat.mtime,
     Size |-> Size(stat.content), Exists |-> TRUE]

\* Mutant of UpdateContent: any change of size or mtime counts as a content change
UpdateContent_metadataOnly(files, ents, filePath, fault) ==
    LET failed == [entries |-> ents, entry |-> << >>, changed |-> FALSE, err |-> TRUE]
        stat == files[filePath]
    IN  IF fault = "stat" THEN failed
        ELSE IF ~stat.exists
        THEN IF Has(ents, filePath)
             THEN [entries |-> Delete(ents, filePath), entry |-> <<ents[filePath]>>,
                   changed |-> TRUE, err |-> FALSE]
             ELSE [entries |-> ents, entry |-> << >>, changed |-> FALSE, err |-> FALSE]
        ELSE IF Has(ents, filePath) /\ Size(stat.content) = ents[filePath].Size
                /\ stat.mtime = ents[filePath].ModTime
        THEN [entries |-> ents, entry |-> <<ents[filePath]>>, changed |-> FALSE, err |-> FALSE]
        ELSE IF fault = "hash" THEN failed
        ELSE [entries |-> Put(ents, filePath, createContentEntry(stat)),
              entry |-> <<createContentEntry(stat)>>, changed |-> TRUE, err |-> FALSE]

\* Mutant of UpdateContent: identical bytes under new metadata leave the entry as it was
UpdateContent_noRefresh(files, ents, filePath, fault) ==
    LET failed == [entries |-> ents, entry |-> << >>, changed |-> FALSE, err |-> TRUE]
        stat == files[filePath]
    IN  IF fault = "stat" THEN failed
        ELSE IF ~stat.exists
        THEN IF Has(ents, filePath)
             THEN [entries |-> Delete(ents, filePath), entry |-> <<ents[filePath]>>,
                   changed |-> TRUE, err |-> FALSE]
             ELSE [entries |-> ents, entry |-> << >>, changed |-> FALSE, err |-> FALSE]
        ELSE IF ~Has(ents, filePath)
        THEN IF fault = "hash" THEN failed
             ELSE [entries |-> Put(ents, filePath, createContentEntry(stat)),
                   entry |-> <<createContentEntry(stat)>>, changed |-> TRUE, err |-> FALSE]
        ELSE IF Size(stat.content) = ents[filePath].Size /\ stat.mtime = ents[filePath].ModTime
        THEN [entries |-> ents, entry |-> <<ents[filePath]>>, changed |-> FALSE, err |-> FALSE]
        ELSE IF fault = "hash" THEN failed
        ELSE IF calculateFileHash(stat.content) # ents[filePath].ContentHash
        THEN [entries |-> Put(ents, filePath, createContentEntry(stat)),
              entry |-> <<createContentEntry(stat)>>, changed |-> TRUE, err |-> FALSE]
        ELSE [entries |-> ents, entry |-> <<ents[filePath]>>, changed |-> FALSE, err |-> FALSE]

\* Mutant of UpdateContent: new bytes are recorded but reported as unchanged
UpdateContent_silent(files, ents, filePath, fault) ==
    LET failed == [entries |-> ents, entry |-> << >>, changed |-> FALSE, err |-> TRUE]
        stat == files[filePath]
    IN  IF fault = "stat" THEN failed
        ELSE IF ~stat.exists
        THEN IF Has(ents, filePath)
             THEN [entries |-> Delete(ents, filePath), entry |-> <<ents[filePath]>>,
                   changed |-> TRUE, err |-> FALSE]
             ELSE [entries |-> ents, entry |-> << >>, changed |-> FALSE, err |-> FALSE]
        ELSE IF ~Has(ents, filePath)
        THEN IF fault = "hash" THEN failed
             ELSE [entries |-> Put(ents, filePath, createContentEntry(stat)),
                   entry |-> <<createContentEntry(stat)>>, changed |-> TRUE, err |-> FALSE]
        ELSE IF Size(stat.content) = ents[filePath].Size /\ stat.mtime = ents[filePath].ModTime
        THEN [entries |-> ents, entry |-> <<ents[filePath]>>, changed |-> FALSE, err |-> FALSE]
        ELSE IF fault = "hash" THEN failed
        ELSE [entries |-> Put(ents, filePath, createContentEntry(stat)),
              entry |-> <<createContentEntry(stat)>>, changed |-> FALSE, err |-> FALSE]

\* UpdateContent returns (entry, changed, err); entry is << >> for nil.  The
\* result also carries the entries map as the call leaves it.
UpdateContent(files, ents, filePath, fault) ==
    LET failed == [entries |-> ents, entry |-> << >>, changed |-> FALSE, err |-> TRUE]
        stat == files[filePath]
    IN  IF fault = "stat" THEN failed
        ELSE IF ~stat.exists
        THEN IF Has(ents, filePath)
             THEN [entries |-> Delete(ents, filePath), entry |-> <<ents[filePath]>>,
                   changed |-> TRUE, err |-> FALSE]
             ELSE [entries |-> ents, entry |-> << >>, changed |-> FALSE, err |-> FALSE]
        ELSE IF ~Has(ents, filePath)
        THEN IF fault = "hash" THEN failed
             ELSE [entries |-> Put(ents, filePath, createContentEntry(stat)),
                   entry |-> <<createContentEntry(stat)>>, changed |-> TRUE, err |-> FALSE]
        ELSE LET existing == ents[filePath] IN
             IF Size(stat.content) = existing.Size /\ stat.mtime = existing.ModTime
             THEN [entries |-> ents, entry |-> <<existing>>, changed |-> FALSE, err |-> FALSE]
             ELSE IF fault = "hash" THEN failed
             ELSE IF calculateFileHash(stat.content) # existing.ContentHash
             THEN [entries |-> Put(ents, filePath, createContentEntry(stat)),
                   entry |-> <<createContentEntry(stat)>>, changed |-> TRUE, err |-> FALSE]
             ELSE LET refreshed == [existing EXCEPT !.ModTime = stat.mtime,
                                                    !.Size = Size(stat.content)]
                  IN  [entries |-> Put(ents, filePath, refreshed), entry |-> <<refreshed>>,
                       changed |-> FALSE, err |-> FALSE]

RemoveContent(ents, filePath) == IF Has(ents, filePath) THEN Delete(ents, filePath) ELSE ents

----------------------------------------------------------------------------
(* Layer 2: the parse store                                                *)

VARIABLES
    parseEntries    \* ParseCache.entries: path -> ParsedFile

\* parsed is << >> for a nil pointer, <<p>> otherwise
ParseSetParsedFile(parse, filePath, parsed) ==
    IF parsed = << >> THEN [parse |-> parse, err |-> TRUE]
    ELSE [parse |-> Put(parse, filePath, parsed[1]), err |-> FALSE]

InvalidateParse(parse, filePath) == IF Has(parse, filePath) THEN Delete(parse, filePath) ELSE parse

ParseGetDependencies(parse, filePath) ==
    IF ~Has(parse, filePath) THEN [dependencies |-> << >>, err |-> TRUE]
    ELSE IF parse[filePath].DependenciesNil THEN [dependencies |-> << >>, err |-> FALSE]
    ELSE [dependencies |-> parse[filePath].LocalImports \o parse[filePath].ExternalImports,
          err |-> FALSE]

----------------------------------------------------------------------------
(* Layer 4: the generation ledger                                          *)

VARIABLES
    genEntries      \* GenerationCache.entries: source path -> GenerationInfo

\* Byte order of the path strings, as sort.Strings compares them
Rank(name) == CASE name = "a" -> 1 [] name = "b" -> 2 [] name = "d" -> 3 [] OTHER -> 4

\* sort.Strings on a copy of the slice
RECURSIVE sortStrings(_)
sortStrings(list) ==
    IF list = << >> THEN << >>
    ELSE LET least == CHOOSE i \in 1..Len(list) :
                          \A j \in 1..Len(list) :
                              Rank(list[i]) < Rank(list[j]) \/ (Rank(list[i]) = Rank(list[j]) /\ i <= j)
         IN  <<list[least]>> \o sortStrings(SubSeq(list, 1, least - 1) \o SubSeq(list, least + 1, Len(list)))

\* strings.Join: the strings of list with sep between neighbours, as the
\* sequence of its pieces; an empty string contributes no piece
RECURSIVE joinStrings(_, _)
joinStrings(list, sep) ==
    IF list = << >> THEN << >>
    ELSE (IF list[1] = "" THEN << >> ELSE <<list[1]>>)
         \o (IF Len(list) = 1 THEN << >> ELSE <<sep>> \o joinStrings(Tail(list), sep))

\* Mutant of calculateDependencyHash: the names are joined in the order given
calculateDependencyHash_unsorted(dependencies) ==
    IF dependencies = << >> THEN <<"">> ELSE <<"md5", joinStrings(dependencies, "|")>>

\* "" for no dependencies, else the md5 of the sorted names joined by "|"
calculateDependencyHash(dependencies) ==
    IF dependencies = << >> THEN <<"">> ELSE <<"md5", joinStrings(sortStrings(dependencies), "|")>>

GenMarkGenerated(gen, sourcePath, outputPath, sourceHash, templateHash, configHash, dependencies) ==
    IF sourcePath = "" \/ outputPath = << >> THEN [gen |-> gen, err |-> TRUE]
    ELSE [gen |-> Put(gen, sourcePath,
                      [OutputPath |-> outputPath, SourceHash |-> sourceHash,
                       TemplateHash |-> templateHash,
                       DependencyHash |-> calculateDependencyHash(dependencies),
                       ConfigHash |-> configHash]),
          err |-> FALSE]

\* NeedsRegeneration returns (needs, reason, nil)
NeedsRegeneration(gen, sourcePath, currentHash, dependencies) ==
    IF ~Has(gen, sourcePath)
    THEN [needs |-> TRUE, reason |-> <<"no generation record found">>]
    ELSE IF gen[sourcePath].SourceHash # currentHash
    THEN [needs |-> TRUE,
          reason |-> <<"source content changed", gen[sourcePath].SourceHash, currentHash>>]
    ELSE IF gen[sourcePath].DependencyHash # calculateDependencyHash(dependencies)
    THEN [needs |-> TRUE, reason |-> <<"dependencies changed">>]
    ELSE [needs |-> FALSE, reason |-> <<"">>]

InvalidateGeneration(gen, sourcePath) == IF Has(gen, sourcePath) THEN Delete(gen, sourcePath) ELSE gen

----------------------------------------------------------------------------
(* What a call returned                                                    *)

\* &models.RegenerationPlan{...} as HandleFileChange and GetRegenerationPlan start it
NewPlan(changedFiles) ==
    [ChangedFiles |-> changedFiles, AffectedFiles |-> << >>, RegenerationMap |-> EmptyMap,
     Reasons |-> EmptyMap, Priority |-> EmptyMap]

\* The record kept in ret: the call (op, path, arg) and its results (the boolean
\* result, the error flag, the returned slice or value, the returned plan)
Returned(op, path, arg, flag, err, out, plan) ==
    [op |-> op, path |-> path, arg |-> arg, flag |-> flag, err |-> err, out |-> out, plan |-> plan]

NoReturn == Returned("", "", "", FALSE, FALSE, << >>, NewPlan(<< >>))

----------------------------------------------------------------------------
(* The cache manager: the four layers behind one interface                 *)

VARIABLES
    parsedFrom, \* history: path -> what was on disk when parse data was last stored for it
    steps       \* calls and file-system events so far

\* The layers a CacheManager holds
CacheManager(content, parse, deps, generation) ==
    [content |-> content, parse |-> parse, deps |-> deps, generation |-> generation]

NewCacheManager == CacheManager(EmptyMap, EmptyMap, EmptyMap, EmptyMap)

\* Reasons[f] and Priority[f] written for every f of list, in order
RECURSIVE markPlan(_, _, _, _)
markPlan(plan, list, reason, priority) ==
    IF list = << >> THEN plan
    ELSE markPlan([plan EXCEPT !.Reasons = Put(@, Head(list), reason),
                               !.Priority = Put(@, Head(list), priority)],
                  Tail(list), reason, priority)

\* Mutant of handleFileDelete: the parse entry is left in place
handleFileDelete_keepParse(cm, filePath, plan) ==
    LET removed == CacheManager(RemoveContent(cm.content, filePath),
                                cm.parse,
                                RemoveNode(cm.deps, filePath),
                                InvalidateGeneration(cm.generation, filePath))
    IN  [cm |-> removed, plan |-> plan, err |-> FALSE, changed |-> FALSE, found |-> << >>]

\* The caches are emptied first; the dependents are read afterwards
handleFileDelete(cm, filePath, plan) ==
    LET removed == CacheManager(RemoveContent(cm.content, filePath),
                                InvalidateParse(cm.parse, filePath),
                                RemoveNode(cm.deps, filePath),
                                InvalidateGeneration(cm.generation, filePath))
        dependents == GraphGetDependents(removed.deps, filePath)
    IN  [cm |-> removed,
         plan |-> markPlan([plan EXCEPT !.AffectedFiles = dependents], dependents,
                           <<"dependency deleted", filePath>>, 3),
         err |-> FALSE, changed |-> FALSE, found |-> << >>]

\* Mutant of handleFileChange: the changed file itself is not added to the plan
handleFileChange_dependentsOnly(cm, files, filePath, plan, fault) ==
    LET u == UpdateContent(files, cm.content, filePath, fault)
        found == IF Has(cm.content, filePath) THEN <<cm.content[filePath]>> ELSE << >>
    IN  IF u.err THEN [cm |-> cm, plan |-> plan, err |-> TRUE, changed |-> FALSE, found |-> found]
        ELSE IF u.changed
        THEN LET affected == GetAffectedFiles(cm.deps, filePath)
             IN  [cm |-> [cm EXCEPT !.content = u.entries,
                                    !.parse = InvalidateParse(cm.parse, filePath)],
                  plan |-> markPlan([plan EXCEPT !.AffectedFiles = affected], affected,
                                    <<"dependency changed", filePath>>, 1),
                  err |-> FALSE, changed |-> TRUE, found |-> found]
        ELSE [cm |-> [cm EXCEPT !.content = u.entries], plan |-> plan,
              err |-> FALSE, changed |-> FALSE, found |-> found]

\* found is the content entry the call met (<< >> for none); changed is what
\* UpdateContent reported
handleFileChange(cm, files, filePath, plan, fault) ==
    LET u == UpdateContent(files, cm.content, filePath, fault)
        found == IF Has(cm.content, filePath) THEN <<cm.content[filePath]>> ELSE << >>
    IN  IF u.err THEN [cm |-> cm, plan |-> plan, err |-> TRUE, changed |-> FALSE, found |-> found]
        ELSE IF u.changed
        THEN LET affected == GetAffectedFiles(cm.deps, filePath)
                 marked == markPlan([plan EXCEPT !.AffectedFiles = affected], affected,
                                    <<"dependency changed", filePath>>, 1)
             IN  [cm |-> [cm EXCEPT !.content = u.entries,
                                    !.parse = InvalidateParse(cm.parse, filePath)],
                  plan |-> [marked EXCEPT !.AffectedFiles = Append(@, filePath),
                                          !.Reasons = Put(@, filePath, <<"file content changed">>),
                                          !.Priority = Put(@, filePath, 2)],
                  err |-> FALSE, changed |-> TRUE, found |-> found]
        ELSE [cm |-> [cm EXCEPT !.content = u.entries], plan |-> plan,
              err |-> FALSE, changed |-> FALSE, found |-> found]

EventTypes == {"write", "create", "delete"}

HandleFileChange(cm, files, filePath, eventType, fault) ==
    CASE eventType = "delete" -> handleFileDelete(cm, filePath, NewPlan(<<filePath>>))
      [] eventType \in {"write", "create"} ->
            handleFileChange(cm, files, filePath, NewPlan(<<filePath>>), fault)
      [] OTHER -> [cm |-> cm, plan |-> NewPlan(<<filePath>>), err |-> TRUE,
                   changed |-> FALSE, found |-> << >>]

\* GetParsedFile returns (parsed, hit, err); parsed is << >> for nil
GetParsedFile(cm, files, filePath, fault) ==
    LET u == UpdateContent(files, cm.content, filePath, fault)
        checked == [cm EXCEPT !.content = u.entries]
    IN  IF u.err THEN [cm |-> cm, parsed |-> << >>, hit |-> FALSE, err |-> TRUE]
        ELSE IF u.entry = << >> \/ ~u.entry[1].Exists
        THEN [cm |-> [checked EXCEPT !.parse = InvalidateParse(cm.parse, filePath)],
              parsed |-> << >>, hit |-> FALSE, err |-> FALSE]
        ELSE LET parse == IF u.changed THEN InvalidateParse(cm.parse, filePath) ELSE cm.parse
             IN  [cm |-> [checked EXCEPT !.parse = parse],
                  parsed |-> IF Has(parse, filePath) THEN <<parse[filePath]>> ELSE << >>,
                  hit |-> Has(parse, filePath), err |-> FALSE]

\* The ContentHash written at the end goes to the copy GetNode returned, so the
\* graph keeps the node UpdateNode left.
\* Mutant of SetParsedFile: the parsed file is stored and the graph is left alone
SetParsedFile_storeOnly(cm, filePath, parsed) ==
    LET stored == ParseSetParsedFile(cm.parse, filePath, parsed)
    IN  IF stored.err THEN [cm |-> cm, err |-> TRUE]
        ELSE [cm |-> [cm EXCEPT !.parse = stored.parse], err |-> FALSE]

SetParsedFile(cm, filePath, parsed) ==
    LET stored == ParseSetParsedFile(cm.parse, filePath, parsed)
        got == ParseGetDependencies(stored.parse, filePath)
        dependencies == IF got.err THEN << >> ELSE got.dependencies
    IN  IF stored.err THEN [cm |-> cm, err |-> TRUE]
        ELSE [cm |-> [cm EXCEPT !.parse = stored.parse,
                                !.deps = UpdateNode(cm.deps, filePath, dependencies)],
              err |-> FALSE]

\* Output path of a source path (<< >> would be the empty path)
OutputPath(sourcePath) == <<"generated", sourcePath>>

MarkGenerated(cm, sourcePath, outputPath) ==
    IF ~Has(cm.content, sourcePath) THEN [cm |-> cm, err |-> TRUE]
    ELSE LET marked == GenMarkGenerated(cm.generation, sourcePath, outputPath,
                                        cm.content[sourcePath].ContentHash,
                                        "template-v1", "config-v1",
                                        GraphGetDependencies(cm.deps, sourcePath))
         IN  [cm |-> [cm EXCEPT !.generation = marked.gen], err |-> marked.err]

\* First loop of GetRegenerationPlan, inner part: the affected files of one
\* changed file, each added once (all is the allAffected map)
RECURSIVE collectAffected(_, _, _, _)
collectAffected(plan, all, affected, changedFile) ==
    IF affected = << >> THEN [plan |-> plan, all |-> all]
    ELSE IF Head(affected) \in all THEN collectAffected(plan, all, Tail(affected), changedFile)
    ELSE collectAffected(
            [plan EXCEPT !.AffectedFiles = Append(@, Head(affected)),
                         !.Reasons = Put(@, Head(affected), <<"depends on changed file", changedFile>>),
                         !.Priority = Put(@, Head(affected), 1)],
            all \cup {Head(affected)}, Tail(affected), changedFile)

\* Mutant of planAffected: only the first changed file is propagated
planAffected_firstOnly(cm, plan, all, changedFiles) ==
    IF changedFiles = << >> THEN [plan |-> plan, all |-> all]
    ELSE LET affected == GetAffectedFiles(cm.deps, Head(changedFiles))
         IN  collectAffected([plan EXCEPT !.RegenerationMap = Put(@, Head(changedFiles), affected)],
                             all, affected, Head(changedFiles))

\* First loop of GetRegenerationPlan
RECURSIVE planAffected(_, _, _, _)
planAffected(cm, plan, all, changedFiles) ==
    IF changedFiles = << >> THEN [plan |-> plan, all |-> all]
    ELSE LET affected == GetAffectedFiles(cm.deps, Head(changedFiles))
             r == collectAffected([plan EXCEPT !.RegenerationMap = Put(@, Head(changedFiles), affected)],
                                  all, affected, Head(changedFiles))
         IN  planAffected(cm, r.plan, r.all, Tail(changedFiles))

\* Mutant of planStale: a file the first loop reached keeps its reason and priority
RECURSIVE planStale_keepFirst(_, _, _, _)
planStale_keepFirst(cm, plan, all, changedFiles) ==
    IF changedFiles = << >> THEN plan
    ELSE LET changedFile == Head(changedFiles) IN
         IF ~Has(cm.content, changedFile) \/ changedFile \in all
         THEN planStale_keepFirst(cm, plan, all, Tail(changedFiles))
         ELSE LET check == NeedsRegeneration(cm.generation, changedFile,
                                             cm.content[changedFile].ContentHash,
                                             GraphGetDependencies(cm.deps, changedFile))
              IN  IF ~check.needs THEN planStale_keepFirst(cm, plan, all, Tail(changedFiles))
                  ELSE planStale_keepFirst(cm,
                          [plan EXCEPT !.AffectedFiles = Append(@, changedFile),
                                       !.Reasons = Put(@, changedFile, check.reason),
                                       !.Priority = Put(@, changedFile, 2)],
                          all \cup {changedFile}, Tail(changedFiles))

\* Second loop of GetRegenerationPlan: the ledger's view of each changed file
RECURSIVE planStale(_, _, _, _)
planStale(cm, plan, all, changedFiles) ==
    IF changedFiles = << >> THEN plan
    ELSE LET changedFile == Head(changedFiles) IN
         IF ~Has(cm.content, changedFile) THEN planStale(cm, plan, all, Tail(changedFiles))
         ELSE LET check == NeedsRegeneration(cm.generation, changedFile,
                                             cm.content[changedFile].ContentHash,
                                             GraphGetDependencies(cm.deps, changedFile))
              IN  IF ~check.needs THEN planStale(cm, plan, all, Tail(changedFiles))
                  ELSE planStale(cm,
                          [plan EXCEPT !.AffectedFiles = IF changedFile \in all THEN @
                                                         ELSE Append(@, changedFile),
                                       !.Reasons = Put(@, changedFile, check.reason),
                                       !.Priority = Put(@, changedFile, 2)],
                          all \cup {changedFile}, Tail(changedFiles))

GetRegenerationPlan(cm, changedFiles) ==
    LET first == planAffected(cm, NewPlan(changedFiles), {}, changedFiles)
    IN  planStale(cm, first.plan, first.all, changedFiles)

\* WarmCache visits the route files on disk in the walk's (lexical) order and
\* calls UpdateContent on each; a file whose UpdateContent fails is skipped.
RECURSIVE warmFiles(_, _, _, _)
warmFiles(content, files, walk, failing) ==
    IF walk = << >> THEN content
    ELSE IF ~files[Head(walk)].exists \/ Head(walk) \in failing
    THEN warmFiles(content, files, Tail(walk), failing)
    ELSE warmFiles(UpdateContent(files, content, Head(walk), "none").entries,
                   files, Tail(walk), failing)

\* filepath.Walk's order over the route files
WalkOrder == sortStrings(CHOOSE walk \in Perms(Files) : TRUE)

WarmCache(cm, files, failing) == [cm EXCEPT !.content = warmFiles(cm.content, files, WalkOrder, failing)]

ManagerClear(cm) == NewCacheManager

\* Mutant of ValidateIntegrity: a cycle or a parsed file without content entry is an error
ValidateIntegrity_strict(cm, order) ==
    [cm |-> cm,
     err |-> {f \in DOMAIN cm.parse : ~Has(cm.content, f)} # {} \/ DetectCycles(cm.deps, order) # << >>,
     orphans |-> {f \in DOMAIN cm.parse : ~Has(cm.content, f)},
     cycles |-> DetectCycles(cm.deps, order)]

\* ValidateIntegrity logs the parsed files without content entry (orphans) and
\* the cycles DetectCycles finds, the graph's keys taken in the order `order`;
\* its only error is DetectCycles', which is always nil
ValidateIntegrity(cm, order) ==
    [cm |-> cm,
     err |-> FALSE,
     orphans |-> {f \in DOMAIN cm.parse : ~Has(cm.content, f)},
     cycles |-> DetectCycles(cm.deps, order)]

\* The generator's needsRegeneration for the route whose source is sourcePath;
\* outs holds the sources whose output file exists
needsRegeneration(cm, outs, sourcePath) ==
    IF sourcePath \notin outs THEN TRUE
    ELSE sourcePath \in Range(GetRegenerationPlan(cm, <<sourcePath>>).AffectedFiles)

\* One turn of generatePerRouteFiles' loop: skip the route, or write its output
\* and record it (a MarkGenerated error is logged and dropped)
generateRoute(cm, outs, sourcePath) ==
    IF ~needsRegeneration(cm, outs, sourcePath)
    THEN [cm |-> cm, outputs |-> outs, generated |-> FALSE]
    ELSE [cm |-> MarkGenerated(cm, sourcePath, OutputPath(sourcePath)).cm,
          outputs |-> outs \cup {sourcePath}, generated |-> TRUE]

----------------------------------------------------------------------------
(* The dependency graph driven through its own interface                   *)

\* The ParsedFiles drawn as inputs: Dependencies nil, or local and external imports
ParsedFiles ==
    {ParsedFile(TRUE, << >>, << >>)}
    \cup {ParsedFile(FALSE, l, e) : l \in SeqsUpTo(Files, MaxDeps), e \in SeqsUpTo(Externals, 1)}

\* The ParsedFiles of a BuildGraph snapshot (BuildGraph never reads ExternalImports)
SnapshotFiles == {p \in ParsedFiles : p.ExternalImports = << >>}

----------------------------------------------------------------------------
(* The file watcher                                                        *)

VARIABLES
    watch       \* the watch loop, its debounce timers and the callbacks they started

\* Ticks of the clock in the debounce window (500 ms)
Window == 2

\* Callbacks that run at the same time, at most (a bound of the exploration)
MaxPasses == 2

\* loop: the position of Watch ("running", or "returned" with its error);
\* DebounceTimer: the id of the timer the field points to, 0 for nil;
\* timers: the timers that will still fire, each with the ticks it has left;
\* passes: on-change callbacks now executing.
\* History: quiet counts the ticks since the last event that was not excluded
\* (up to Window), fires the callbacks started since that event, seen whether
\* there was such an event, burst the events of the current burst (each less
\* than a window after the one before), counted up to 2.
\* dirs: the directories the notification source watches.
NewFileWatcher ==
    [loop |-> "running", err |-> FALSE, DebounceTimer |-> 0, timers |-> {},
     passes |-> 0, quiet |-> 0, fires |-> 0, seen |-> FALSE, burst |-> 0,
     dirs |-> {<< >>}]

\* Mutant of debounceGenerate: the pending timer is not stopped
debounceGenerate_noStop(w) ==
    LET id == IF w.DebounceTimer = 1 THEN 2 ELSE 1
    IN  [w EXCEPT !.DebounceTimer = id,
                  !.timers = @ \cup {[id |-> id, left |-> Window]}]

\* Stop the timer the field points to (no effect on one that has fired), then
\* point the field to a new timer of a full window
debounceGenerate(w) ==
    LET id == IF w.DebounceTimer = 1 THEN 2 ELSE 1
    IN  [w EXCEPT !.DebounceTimer = id,
                  !.timers = {t \in @ : t.id # w.DebounceTimer} \cup {[id |-> id, left |-> Window]}]

----------------------------------------------------------------------------
(* The global cache manager                                                *)

VARIABLES
    once        \* cacheOnce, globalCacheManager and the goroutines calling GetCacheManager

\* The goroutines that call GetCacheManager
Goroutines == {1, 2, 3}

\* done and m: the fields of cacheOnce (m holds the goroutine that locked it, 0
\* for none); globalCacheManager: the instance the variable points to, 0 for
\* nil; built: the instances NewCacheManager has constructed; pc: where each
\* goroutine is in GetCacheManager.  History: returned holds every value a call
\* has returned; custom is the instance last handed to SetCacheManager, 0 for
\* none; after tells of each goroutine whether its call began after that
\* SetCacheManager, and later holds the values such calls have returned;
\* cleared is the instance ClearGlobalCache last cleared since then, 0 for none.
NewOnce ==
    [done |-> FALSE, m |-> 0, globalCacheManager |-> 0, built |-> 0,
     pc |-> [t \in Goroutines |-> "idle"], returned |-> {},
     custom |-> 0, after |-> [t \in Goroutines |-> FALSE], later |-> {}, cleared |-> 0]

\* Mutant of mayLock: the mutex of the Once excludes nobody
mayLock_always(o) == TRUE

\* o.m.Lock() can return
mayLock(o) == o.m = 0

----------------------------------------------------------------------------
(* The route tree                                                          *)

VARIABLES
    tree        \* the RouteTree: its nodes and its Routes

\* Strings are lists of characters here.  Folder names, among them a parameter
\* folder, one named by the marker alone and one ending with two markers
Users == <<"u", "s", "e", "r", "s">>
IdParam == <<"i", "d", "_">>
Profiles == <<"p", "r", "o", "f", "i", "l", "e", "s">>
Marker == <<"_">>
PostParam == <<"p", "_", "_">>
Dot == <<".">>

\* strings.HasSuffix and strings.TrimSuffix
HasSuffix(s, suffix) ==
    Len(s) >= Len(suffix) /\ SubSeq(s, Len(s) - Len(suffix) + 1, Len(s)) = suffix

TrimSuffix(s, suffix) == IF HasSuffix(s, suffix) THEN SubSeq(s, 1, Len(s) - Len(suffix)) ELSE s

\* strings.Join
RECURSIVE Join(_, _)
Join(elems, sep) ==
    IF elems = << >> THEN << >>
    ELSE IF Len(elems) = 1 THEN elems[1]
    ELSE elems[1] \o sep \o Join(Tail(elems), sep)

\* Mutant of ParseSegment: every trailing marker is trimmed from the parameter name
RECURSIVE TrimAll(_, _)
TrimAll(s, suffix) == IF HasSuffix(s, suffix) THEN TrimAll(TrimSuffix(s, suffix), suffix) ELSE s

ParseSegment_trimAll(folderName) ==
    IF HasSuffix(folderName, Marker)
    THEN [Name |-> folderName, APIName |-> <<":">> \o TrimAll(folderName, Marker), IsParam |-> TRUE,
          ParamName |-> TrimAll(folderName, Marker)]
    ELSE [Name |-> folderName, APIName |-> folderName, IsParam |-> FALSE, ParamName |-> << >>]

ParseSegment(folderName) ==
    IF HasSuffix(folderName, Marker)
    THEN [Name |-> folderName, APIName |-> <<":">> \o TrimSuffix(folderName, Marker), IsParam |-> TRUE,
          ParamName |-> TrimSuffix(folderName, Marker)]
    ELSE [Name |-> folderName, APIName |-> folderName, IsParam |-> FALSE, ParamName |-> << >>]

\* A RouteNode, as a child of its parent under the key Segment.Name; the nodes
\* of a tree are kept by the list of keys that leads to them from the root
RouteNode(segment, fullPath, folderPath, depth) ==
    [Segment |-> segment, FullPath |-> fullPath, FolderPath |-> folderPath, Depth |-> depth,
     Methods |-> << >>, ParsedFile |-> << >>]

NewRouteTree ==
    [nodes |-> Put(EmptyMap, << >>, RouteNode(ParseSegment(<< >>), << >>, << >>, 0)),
     Routes |-> << >>]

\* A ParsedFile as AddRoute reads it: RelPath is the list of the elements that
\* the separator splits the cleaned path into
ParsedRoute(relPath, methods) == [RelPath |-> relPath, Methods |-> methods]

\* The parts of the path that are neither empty nor "."
validPartsOf(relPath) == SelectSeq(relPath, LAMBDA part : part # << >> /\ part # Dot)

\* The segments of the first i parts
apiPartsOf(validParts, i) == [j \in 1..i |-> ParseSegment(validParts[j])]

\* The parameter names of the parameter segments, in order
parametersOf(apiParts) ==
    LET params == SelectSeq(apiParts, LAMBDA segment : segment.IsParam)
    IN  [j \in 1..Len(params) |-> params[j].ParamName]

\* AddRoute's loop from part i on: a child that is missing is created
RECURSIVE descend(_, _, _)
descend(n, validParts, i) ==
    IF i > Len(validParts) THEN n
    ELSE LET key == SubSeq(validParts, 1, i)
             apiParts == apiPartsOf(validParts, i)
             newNode == RouteNode(apiParts[i],
                                  Join([j \in 1..i |-> apiParts[j].APIName], <<"/">>),
                                  Join(key, <<"/">>), i)
         IN  descend(IF Has(n, key) THEN n ELSE Put(n, key, newNode), validParts, i + 1)

\* Mutant of ChildrenOf: no node has children
ChildrenOf_none(n, key) == {}

\* The keys of the children of the node at key
ChildrenOf(n, key) == {k \in DOMAIN n : Len(k) = Len(key) + 1 /\ SubSeq(k, 1, Len(key)) = key}

AddRoute(rt, parsed) ==
    LET validParts == validPartsOf(parsed.RelPath)
        apiParts == apiPartsOf(validParts, Len(validParts))
        n == descend(rt.nodes, validParts, 1)
        current == [n[validParts] EXCEPT !.ParsedFile = <<parsed>>, !.Methods = @ \o parsed.Methods]
        route == [APIPath |-> current.FullPath,
                  FolderPath |-> Join(parsed.RelPath, <<"/">>),
                  Segments |-> apiParts,
                  Parameters |-> parametersOf(apiParts),
                  IsLeaf |-> ChildrenOf(n, validParts) = {},
                  Methods |-> parsed.Methods]
    IN  IF validParts = << >> THEN rt
        ELSE [nodes |-> [n EXCEPT ![validParts] = current], Routes |-> Append(rt.Routes, route)]

----------------------------------------------------------------------------
(* A generation pass, step by step                                         *)

VARIABLES
    pass        \* where a generation pass is, and what it has read and written

\* pc: "idle", or "walked" once the walk has obtained the parsed data of every
\* route; project: what parsing a file gives; parsed: for each route, the bytes
\* its parsed data was read from; todo: the routes generatePerRouteFiles has
\* still to go over.  History: built holds, for each output file, the bytes of
\* the source it was generated from, during the files whose write the watch
\* loop handled between the walk and their turn in the loop.
NewPass ==
    [pc |-> "idle", project |-> << >>, parsed |-> << >>, todo |-> << >>, built |-> << >>,
     during |-> {}]

----------------------------------------------------------------------------
(* The counters of a cache layer                                           *)

VARIABLES
    stats       \* a layer's mutex, its counters and the lookups under way

\* hits, misses: the counters of stats; readers: the goroutines that hold the
\* read lock; pc: where each goroutine is in its lookup; counter: the counter
\* its lookup counts on; loaded: the value it has read of it.  History:
\* started and returned count the lookups that have begun and have returned.
NewStats ==
    [hits |-> 0, misses |-> 0, readers |-> {},
     pc |-> [t \in Goroutines |-> "idle"], counter |-> [t \in Goroutines |-> "hits"],
     loaded |-> [t \in Goroutines |-> 0], started |-> 0, returned |-> 0]

\* strings.Split on a separator of one character
RECURSIVE Split(_, _)
Split(s, sep) ==
    IF \A i \in 1..Len(s) : s[i] # sep THEN <<s>>
    ELSE LET i == CHOOSE i \in 1..Len(s) : s[i] = sep /\ \A j \in 1..(i - 1) : s[j] # sep
         IN  <<SubSeq(s, 1, i - 1)>> \o Split(SubSeq(s, i + 1, Len(s)), sep)

\* filepath.Clean of a path without "..": empty and "." elements are dropped,
\* a leading separator is kept, and "." stands for the path left empty
Clean(path) ==
    LET parts == SelectSeq(Split(path, "/"), LAMBDA part : part # << >> /\ part # Dot)
        rooted == path # << >> /\ path[1] = "/"
    IN  IF parts = << >> THEN (IF rooted THEN <<"/">> ELSE Dot)
        ELSE (IF rooted THEN <<"/">> ELSE << >>) \o Join(parts, <<"/">>)

\* filepath.Join: the elements that are not empty, joined and cleaned
filepathJoin(elems) ==
    LET nonEmpty == SelectSeq(elems, LAMBDA elem : elem # << >>)
    IN  IF nonEmpty = << >> THEN << >> ELSE Clean(Join(nonEmpty, <<"/">>))

\* strings.ReplaceAll of one character by another
ReplaceAll(s, old, new) == [i \in 1..Len(s) |-> IF s[i] = old THEN new ELSE s[i]]

RoutesDir == <<"r", "o", "u", "t", "e", "s">>
GenRouteGo == <<"g", "e", "n", "_", "r", "o", "u", "t", "e", ".", "g", "o">>

generatePackageAlias(folderPath) ==
    ReplaceAll(ReplaceAll(ReplaceAll(folderPath, "/", "_"), "-", "_"), " ", "_")
        \o <<"_", "r", "o", "u", "t", "e">>

\* Mutant of outputPathOf: the output lies in the directory named by the
\* last element of the folder path alone
outputPathOf_base(output, folderPath) ==
    filepathJoin(<<output, RoutesDir, Split(folderPath, "/")[Len(Split(folderPath, "/"))], GenRouteGo>>)

\* The OutputPath of a route: the RelativeOutput below the output root
outputPathOf(output, folderPath) ==
    filepathJoin(<<output, filepathJoin(<<RoutesDir, folderPath, GenRouteGo>>)>>)

\* cfg is the Config as far as it is read: Codegen.Go.Output.  The four fields
\* are written into every Route, over what an earlier call wrote
CalculateOutputPaths(rt, cfg, moduleName) ==
    [rt EXCEPT !.Routes =
        [i \in 1..Len(rt.Routes) |->
            [RelativeOutput |-> filepathJoin(<<RoutesDir, rt.Routes[i].FolderPath, GenRouteGo>>),
             OutputPath |-> outputPathOf(cfg.Output, rt.Routes[i].FolderPath),
             ImportPath |-> moduleName \o <<"/">> \o cfg.Output \o <<"/">> \o RoutesDir
                                \o <<"/">> \o rt.Routes[i].FolderPath,
             PackageAlias |-> generatePackageAlias(rt.Routes[i].FolderPath)]
            @@ rt.Routes[i]]]

\* The bytes of a file, << >> for a file that is not there
OnDisk(files, f) == IF files[f].exists THEN <<files[f].content>> ELSE << >>

\* Source files as they are on disk when the program starts
FsInit == [f \in Files |-> [exists |-> TRUE, content |-> <<1>>, mtime |-> 0]]

\* The variables the graph's own interface leaves alone
others == <<fs, outputs, entries, parseEntries, genEntries, parsedFrom, steps, watch, once, tree, pass, stats>>

GraphInit ==
    /\ nodes = EmptyMap
    /\ ret = NoReturn
    /\ fs = FsInit
    /\ outputs = {}
    /\ entries = EmptyMap
    /\ parseEntries = EmptyMap
    /\ genEntries = EmptyMap
    /\ parsedFrom = EmptyMap
    /\ steps = 0
    /\ watch = NewFileWatcher
    /\ once = NewOnce
    /\ tree = NewRouteTree
    /\ pass = NewPass
    /\ stats = NewStats

\* BuildGraph replaces dg.nodes before it reads anything, so what it builds does
\* not depend on the graph it is called on: the call is drawn on the empty graph,
\* where every graph it can build is built.
CallBuildGraph ==
    /\ nodes = EmptyMap
    /\ \E S \in SUBSET Files :
        \E parsedFiles \in [S -> SnapshotFiles], order \in Perms(S) :
            /\ nodes' = BuildGraph(parsedFiles, order)
            /\ ret' = Returned("BuildGraph", "", "", FALSE, FALSE, << >>, NewPlan(<< >>))
            /\ UNCHANGED others

CallUpdateNode ==
    \E filePath \in Files, dependencies \in SeqsUpTo(Files, MaxDeps) :
        /\ nodes' = UpdateNode(nodes, filePath, dependencies)
        /\ ret' = Returned("UpdateNode", filePath, "", FALSE, FALSE, << >>, NewPlan(<< >>))
        /\ UNCHANGED others

CallRemoveNode ==
    \E filePath \in Files :
        /\ nodes' = RemoveNode(nodes, filePath)
        /\ ret' = Returned("RemoveNode", filePath, "", Has(nodes, filePath), FALSE,
                           << >>, NewPlan(<< >>))
        /\ UNCHANGED others

CallClear ==
    /\ nodes' = EmptyMap
    /\ ret' = Returned("Clear", "", "", FALSE, FALSE, << >>, NewPlan(<< >>))
    /\ UNCHANGED others

CallGetAffectedFiles ==
    \E changedFile \in Files :
        /\ ret' = Returned("GetAffectedFiles", changedFile, "", FALSE, FALSE,
                           GetAffectedFiles(nodes, changedFile), NewPlan(<< >>))
        /\ UNCHANGED <<nodes, others>>

CallDetectCycles ==
    \E order \in Perms(DOMAIN nodes) :
        /\ ret' = Returned("DetectCycles", "", "", FALSE, FALSE,
                           DetectCycles(nodes, order), NewPlan(<< >>))
        /\ UNCHANGED <<nodes, others>>

CallGetTopologicalOrder ==
    \E order \in Perms(DOMAIN nodes) :
        LET r == GetTopologicalOrder(nodes, order)
        IN  /\ ret' = Returned("GetTopologicalOrder", "", "", FALSE, r.err, r.result, NewPlan(<< >>))
            /\ UNCHANGED <<nodes, others>>

GraphNext ==
    \/ CallBuildGraph
    \/ CallUpdateNode
    \/ CallRemoveNode
    \/ CallClear
    \/ CallGetAffectedFiles
    \/ CallDetectCycles
    \/ CallGetTopologicalOrder

vars == <<nodes, ret, fs, outputs, entries, parseEntries, genEntries, parsedFrom, steps, watch,
          once, tree, pass, stats>>

GraphSpec == GraphInit /\ [][GraphNext]_vars

----------------------------------------------------------------------------
(* The cache manager driven by the watcher, the generator and the disk     *)

\* The manager as the variables hold it
CM == CacheManager(entries, parseEntries, nodes, genEntries)

\* The variables take the layers of cm
Becomes(cm) ==
    /\ entries' = cm.content
    /\ parseEntries' = cm.parse
    /\ nodes' = cm.deps
    /\ genEntries' = cm.generation

Step == steps < MaxSteps /\ steps' = steps + 1

\* What the parser found in each source file of two projects: a chain with a
\* shortcut (a imports b and d, b imports d), and a cycle between a and d with a
\* third-party import and a file without dependency data
Projects ==
    { [f \in Files |-> CASE f = "a" -> ParsedFile(FALSE, <<"b", "d">>, << >>)
                         [] f = "b" -> ParsedFile(FALSE, <<"d">>, << >>)
                         [] OTHER -> ParsedFile(FALSE, << >>, << >>)],
      [f \in Files |-> CASE f = "a" -> ParsedFile(FALSE, <<"d">>, <<"x">>)
                         [] f = "b" -> ParsedFile(TRUE, << >>, << >>)
                         [] OTHER -> ParsedFile(FALSE, <<"a">>, << >>)] }

\* A session before any call
NewSession == [cm |-> NewCacheManager, outputs |-> {}]

\* Each file of walk looked up (a miss that records its content) and its parse stored
RECURSIVE parseAll(_, _, _, _)
parseAll(cm, files, project, walk) ==
    IF walk = << >> THEN cm
    ELSE parseAll(SetParsedFile(GetParsedFile(cm, files, Head(walk), "none").cm,
                                Head(walk), <<project[Head(walk)]>>).cm,
                  files, project, Tail(walk))

\* generatePerRouteFiles' loop over the routes of walk
RECURSIVE generateAll(_, _)
generateAll(session, walk) ==
    IF walk = << >> THEN session
    ELSE LET g == generateRoute(session.cm, session.outputs, Head(walk))
         IN  generateAll([cm |-> g.cm, outputs |-> g.outputs], Tail(walk))

\* The session after the first generation pass over a project, the pass a
\* development session runs before it starts to watch
FirstPass(project) ==
    generateAll([cm |-> parseAll(NewCacheManager, FsInit, project, WalkOrder), outputs |-> {}],
                WalkOrder)

Init ==
    /\ fs = FsInit
    /\ ret = NoReturn
    /\ steps = 0
    /\ watch = NewFileWatcher
    /\ once = NewOnce
    /\ tree = NewRouteTree
    /\ pass = NewPass
    /\ stats = NewStats
    /\ \E session \in {NewSession} \cup {FirstPass(project) : project \in Projects} :
        /\ entries = session.cm.content
        /\ parseEntries = session.cm.parse
        /\ nodes = session.cm.deps
        /\ genEntries = session.cm.generation
        /\ outputs = session.outputs
        /\ parsedFrom = [f \in DOMAIN session.cm.parse |-> OnDisk(FsInit, f)]

\* The disk: a source file is written (created if absent); writing the bytes it
\* already holds only advances its modification time
FsWrite ==
    \E f \in Files, content \in Contents :
        /\ Step
        /\ fs' = [fs EXCEPT ![f] = [exists |-> TRUE, content |-> content, mtime |-> @.mtime + 1]]
        /\ UNCHANGED <<nodes, ret, outputs, entries, parseEntries, genEntries, parsedFrom, watch, once, tree, pass, stats>>

\* The disk: a source file is removed
FsRemove ==
    \E f \in Files :
        /\ Step
        /\ fs[f].exists
        /\ fs' = [fs EXCEPT ![f].exists = FALSE]
        /\ UNCHANGED <<nodes, ret, outputs, entries, parseEntries, genEntries, parsedFrom, watch, once, tree, pass, stats>>

\* The parse data offered to SetParsedFile: a nil pointer, or a ParsedFile with
\* at most one local import
Offered == {<< >>} \cup {<<p>> : p \in {q \in ParsedFiles : Len(q.LocalImports) <= 1}}

\* ret.out holds the content entry the call met
CallHandleFileChange ==
    \E f \in Files, eventType \in EventTypes, fault \in Faults :
        /\ Step
        /\ eventType = "delete" => fault = "none"
        /\ LET r == HandleFileChange(CM, fs, f, eventType, fault)
           IN  /\ Becomes(r.cm)
               /\ ret' = Returned("HandleFileChange", f, eventType, r.changed, r.err, r.found, r.plan)
        /\ UNCHANGED <<fs, outputs, parsedFrom, watch, once, tree, pass, stats>>

CallGetParsedFile ==
    \E f \in Files, fault \in Faults :
        /\ Step
        /\ LET r == GetParsedFile(CM, fs, f, fault)
           IN  /\ Becomes(r.cm)
               /\ ret' = Returned("GetParsedFile", f, "", r.hit, r.err, r.parsed, NewPlan(<< >>))
        /\ UNCHANGED <<fs, outputs, parsedFrom, watch, once, tree, pass, stats>>

CallSetParsedFile ==
    \E f \in Files, parsed \in Offered :
        /\ Step
        /\ LET r == SetParsedFile(CM, f, parsed)
           IN  /\ Becomes(r.cm)
               /\ ret' = Returned("SetParsedFile", f, "", FALSE, r.err, parsed, NewPlan(<< >>))
               /\ parsedFrom' = IF r.err THEN parsedFrom ELSE Put(parsedFrom, f, OnDisk(fs, f))
        /\ UNCHANGED <<fs, outputs, watch, once, tree, pass, stats>>

CallMarkGenerated ==
    \E f \in Files :
        /\ Step
        /\ LET r == MarkGenerated(CM, f, OutputPath(f))
           IN  /\ Becomes(r.cm)
               /\ ret' = Returned("MarkGenerated", f, "", FALSE, r.err, << >>, NewPlan(<< >>))
        /\ UNCHANGED <<fs, outputs, parsedFrom, watch, once, tree, pass, stats>>

CallGetRegenerationPlan ==
    \E changedFiles \in SeqsUpTo(Files, MaxDeps) :
        /\ Step
        /\ ret' = Returned("GetRegenerationPlan", "", "", FALSE, FALSE, changedFiles,
                           GetRegenerationPlan(CM, changedFiles))
        /\ UNCHANGED <<nodes, fs, outputs, entries, parseEntries, genEntries, parsedFrom, watch, once, tree, pass, stats>>

CallWarmCache ==
    \E failing \in SUBSET Files :
        /\ Step
        /\ Becomes(WarmCache(CM, fs, failing))
        /\ ret' = Returned("WarmCache", "", "", FALSE, FALSE, << >>, NewPlan(<< >>))
        /\ UNCHANGED <<fs, outputs, parsedFrom, watch, once, tree, pass, stats>>

CallManagerClear ==
    /\ Step
    /\ Becomes(ManagerClear(CM))
    /\ ret' = Returned("ManagerClear", "", "", FALSE, FALSE, << >>, NewPlan(<< >>))
    /\ UNCHANGED <<fs, outputs, parsedFrom, watch, once, tree, pass, stats>>

\* ret.flag tells whether a parsed file without content entry was logged,
\* ret.out holds the cycles logged
CallValidateIntegrity ==
    \E order \in Perms(DOMAIN nodes) :
        /\ Step
        /\ LET r == ValidateIntegrity(CM, order)
           IN  /\ Becomes(r.cm)
               /\ ret' = Returned("ValidateIntegrity", "", "", r.orphans # {}, r.err, r.cycles,
                                  NewPlan(<< >>))
        /\ UNCHANGED <<fs, outputs, parsedFrom, watch, once, tree, pass, stats>>

\* The generator reaches the route of an existing source file; ret.flag tells
\* whether needsRegeneration returned true
GenerateRoute ==
    \E f \in Files :
        /\ Step
        /\ fs[f].exists
        /\ LET r == generateRoute(CM, outputs, f)
           IN  /\ Becomes(r.cm)
               /\ outputs' = r.outputs
               /\ ret' = Returned("needsRegeneration", f, "", r.generated, FALSE, << >>, NewPlan(<< >>))
        /\ UNCHANGED <<fs, parsedFrom, watch, once, tree, pass, stats>>

Next ==
    \/ FsWrite
    \/ FsRemove
    \/ CallHandleFileChange
    \/ CallGetParsedFile
    \/ CallSetParsedFile
    \/ CallMarkGenerated
    \/ CallGetRegenerationPlan
    \/ CallWarmCache
    \/ CallManagerClear
    \/ CallValidateIntegrity
    \/ GenerateRoute

Spec == Init /\ [][Next]_vars

----------------------------------------------------------------------------
(* Graph vocabulary of the claims, defined on the relations alone          *)

\* <<a, b>>: a's dependency list names b
DependenciesRel(n) == {e \in (DOMAIN n) \X (Files \cup Externals) : e[2] \in Range(n[e[1]].Dependencies)}

\* <<b, a>>: b's dependent list names a
DependentsRel(n) == {e \in (DOMAIN n) \X (Files \cup Externals) : e[2] \in Range(n[e[1]].Dependents)}

Transpose(R) == {<<e[2], e[1]>> : e \in R}

RECURSIVE Closure(_, _)
Closure(R, S) ==
    LET S1 == S \cup {e[2] : e \in {x \in R : x[1] \in S}}
    IN  IF S1 = S THEN S ELSE Closure(R, S1)

\* The nodes reached from f by one or more edges of R
ReachPlus(R, f) == Closure(R, {e[2] : e \in {x \in R : x[1] = f}})

Cyclic(n) == \E f \in DOMAIN n : f \in ReachPlus(DependenciesRel(n), f)

----------------------------------------------------------------------------
(* Claims about the dependency graph (GraphSpec)                           *)

\* C5: for every graph and file f, the set of files GetAffectedFiles(f) returns is
\* exactly the set of nodes reachable from f by one or more dependent edges; it is
\* a function of the edge set alone (the dependency relation, transposed), so the
\* order in which the edges were inserted does not show in it.
C5_AffectedIsReachable ==
    \A f \in Files :
        /\ Range(GetAffectedFiles(nodes, f)) = ReachPlus(DependentsRel(nodes), f)
        /\ Range(GetAffectedFiles(nodes, f)) = ReachPlus(Transpose(DependenciesRel(nodes)), f)

\* C5 witness: GetAffectedFiles was called on a file with a transitive (not direct)
\* dependent and whose dependents were not inserted in sorted order
C5_Witness ==
    /\ ret.op = "GetAffectedFiles"
    /\ ret.path = "d"
    /\ Range(ret.out) = {"a", "b"}
    /\ Has(nodes, "d") /\ nodes["d"].Dependents = <<"b">>
    /\ nodes["b"].Dependents = <<"a">>

\* C6: after any sequence of BuildGraph, UpdateNode, RemoveNode and Clear, the
\* dependents relation is the exact transpose of the dependencies relation, and
\* every path named in either list has a node.
C6_Transpose ==
    /\ DependentsRel(nodes) = Transpose(DependenciesRel(nodes))
    /\ \A e \in DependenciesRel(nodes) \cup DependentsRel(nodes) : Has(nodes, e[2])

\* C6 witness: an UpdateNode replaced a dependency list, leaving edges in the graph,
\* among them one to a node that has no dependencies of its own
C6_Witness ==
    /\ ret.op = "UpdateNode"
    /\ Cardinality(DependenciesRel(nodes)) >= 2
    /\ \E f \in DOMAIN nodes : nodes[f].Dependencies = << >> /\ nodes[f].Dependents # << >>

\* C7: after RemoveNode(f), f has no node and no remaining node's dependency list
\* or dependent list (what GetDependencies and GetDependents return) names f.
C7_RemoveNodeUnwinds ==
    ret.op = "RemoveNode" =>
        /\ ~Has(nodes, ret.path)
        /\ \A g \in Files \cup Externals :
            /\ ret.path \notin Range(GraphGetDependencies(nodes, g))
            /\ ret.path \notin Range(GraphGetDependents(nodes, g))

\* C7 witness: RemoveNode removed a node that existed, from a graph that keeps edges
C7_Witness ==
    /\ ret.op = "RemoveNode"
    /\ ret.flag
    /\ DependenciesRel(nodes) # {}

\* Whether `order` lists every node once, each after all of its dependencies
IsTopologicalOrder(n, order) ==
    /\ Len(order) = Cardinality(DOMAIN n)
    /\ Range(order) = DOMAIN n
    /\ \A i, j \in 1..Len(order) : <<order[i], order[j]>> \in DependenciesRel(n) => j < i

\* C8: whenever the dependency graph is acyclic, whatever calls produced it
\* (dependency lists naming a file twice included), GetTopologicalOrder succeeds
\* and returns a permutation of all nodes, every node after all of its dependencies.
C8_TopologicalOrderOnDag ==
    ~Cyclic(nodes) =>
        \A order \in Perms(DOMAIN nodes) :
            /\ ~GetTopologicalOrder(nodes, order).err
            /\ IsTopologicalOrder(nodes, GetTopologicalOrder(nodes, order).result)

\* C9: whenever the dependency graph contains a cycle (a self-dependency included),
\* GetTopologicalOrder returns no order and fails, and it leaves the graph unchanged.
C9_TopologicalOrderOnCycle ==
    /\ [](Cyclic(nodes) =>
            \A order \in Perms(DOMAIN nodes) :
                GetTopologicalOrder(nodes, order) = [result |-> << >>, err |-> TRUE])
    /\ [][ret'.op = "GetTopologicalOrder" => nodes' = nodes]_vars

\* C9 witness: GetTopologicalOrder failed on a graph whose cycle has two nodes
\* and which also holds a node outside the cycle
C9_Witness ==
    /\ ret.op = "GetTopologicalOrder"
    /\ ret.err /\ ret.out = << >>
    /\ <<"a", "b">> \in DependenciesRel(nodes) /\ <<"b", "a">> \in DependenciesRel(nodes)
    /\ Has(nodes, "d") /\ nodes["d"].Dependencies = << >>

\* The graph's only cycle is A -> B -> A
OnlyCycle(n, A, B) ==
    /\ A # B
    /\ <<A, B>> \in DependenciesRel(n) /\ <<B, A>> \in DependenciesRel(n)
    /\ \A f \in DOMAIN n : f \in ReachPlus(DependenciesRel(n), f) => f \in {A, B}
    /\ \A f \in DOMAIN n : <<f, f>> \notin DependenciesRel(n)

\* C10: DetectCycles returns an empty result iff the graph is acyclic, for every
\* node iteration order; on a graph whose only cycle is A -> B -> A it returns one
\* cycle, containing exactly the nodes A and B.
C10_DetectCycles ==
    \A order \in Perms(DOMAIN nodes) :
        /\ (DetectCycles(nodes, order) = << >>) <=> ~Cyclic(nodes)
        /\ \A A, B \in Files :
            OnlyCycle(nodes, A, B) =>
                /\ Len(DetectCycles(nodes, order)) = 1
                /\ Range(DetectCycles(nodes, order)[1]) = {A, B}
                /\ Len(DetectCycles(nodes, order)[1]) = 2

\* C10 witness: DetectCycles reported the one cycle a <-> b of a graph in which a
\* third node depends on the cycle
C10_Witness ==
    /\ ret.op = "DetectCycles"
    /\ Len(ret.out) = 1 /\ Range(ret.out[1]) = {"a", "b"}
    /\ OnlyCycle(nodes, "a", "b")
    /\ <<"d", "a">> \in DependenciesRel(nodes)

----------------------------------------------------------------------------
(* Claims about the cache manager                                          *)

\* A transitively depends on D in the graph n
DependsOn(n, A, D) == D \in ReachPlus(DependenciesRel(n), A)

\* C1: wherever a file A of the graph names another file D among its
\* dependencies, HandleFileChange for a delete event on D returns a plan whose
\* AffectedFiles contains A, with priority 3 and a reason that names D.
C1_DeletePlanNamesDependents ==
    \A D \in Files : \A A \in DOMAIN nodes \ {D} :
        D \in Range(nodes[A].Dependencies) =>
            LET plan == HandleFileChange(CM, fs, D, "delete", "none").plan
            IN  /\ A \in Range(plan.AffectedFiles)
                /\ Has(plan.Priority, A) /\ plan.Priority[A] = 3
                /\ Has(plan.Reasons, A) /\ plan.Reasons[A] = <<"dependency deleted", D>>

\* The bytes of f are not the ones on disk when parse data was last stored for it
Stale(f) == Has(parsedFrom, f) /\ parsedFrom[f] # OnDisk(fs, f)

\* C2: after any sequence of file writes and manager calls, GetParsedFile does
\* not report a hit for a file whose parse data was stored before its content
\* last changed.  (Checked for the files whose bytes now differ from the bytes
\* the data was stored against; a file rewritten back to those bytes is let pass.)
C2_HitIsFresh ==
    \A f \in Files : \A fault \in Faults : Stale(f) => ~GetParsedFile(CM, fs, f, fault).hit

\* C3: when HandleFileChange handles a write to D and finds its content changed,
\* needsRegeneration is true afterwards for every route whose source
\* transitively depends on D.
C3_DependentsRegenerate ==
    \A D \in Files :
        LET r == HandleFileChange(CM, fs, D, "write", "none")
        IN  r.changed =>
                \A A \in Files \ {D} :
                    (fs[A].exists /\ Has(r.cm.deps, A) /\ DependsOn(r.cm.deps, A, D)) =>
                        needsRegeneration(r.cm, outputs, A)

\* The file f has a content entry made from the bytes it holds now, under an
\* older modification time
Touched(f) ==
    /\ fs[f].exists
    /\ Has(entries, f)
    /\ entries[f].ContentHash = calculateFileHash(fs[f].content)
    /\ entries[f].ModTime # fs[f].mtime

\* C4: a write event on a file whose content entry was made from the bytes the
\* file still holds (only its modification time moved) is reported as unchanged:
\* the plan's AffectedFiles is empty and the parse store, the graph and the
\* ledger stay as they were.
C4_TouchChangesNothing ==
    \A f \in Files, fault \in Faults :
        Touched(f) =>
            LET r == HandleFileChange(CM, fs, f, "write", fault)
            IN  /\ ~r.changed
                /\ r.plan.AffectedFiles = << >>
                /\ r.cm.parse = parseEntries
                /\ r.cm.deps = nodes
                /\ r.cm.generation = genEntries

\* A write event has just been handled for a touched file that has parse data,
\* a ledger record and dependents: the entry the call met carried the older
\* modification time, the entry it left carries the file's
C4_Witness ==
    /\ ret.op = "HandleFileChange" /\ ret.arg = "write"
    /\ ~ret.err /\ ~ret.flag
    /\ ret.plan.AffectedFiles = << >>
    /\ ret.out # << >>
    /\ fs[ret.path].exists
    /\ ret.out[1].ModTime # fs[ret.path].mtime
    /\ Has(entries, ret.path) /\ entries[ret.path].ModTime = fs[ret.path].mtime
    /\ Has(parseEntries, ret.path) /\ Has(genEntries, ret.path)
    /\ GetAffectedFiles(nodes, ret.path) # << >>

----------------------------------------------------------------------------
(* The generation ledger driven through its own interface                  *)

\* Source paths the ledger is asked about
LedgerSources == {"a", "b"}

\* Content hashes a caller can hold
Hashes == {calculateFileHash(content) : content \in Contents}

\* ret.arg holds the source hash passed, ret.out the dependencies passed
LedgerMarkGenerated ==
    \E sourcePath \in LedgerSources \cup {""}, sourceHash \in Hashes,
       dependencies \in SeqsUpTo(Files, MaxDeps) :
        LET r == GenMarkGenerated(genEntries, sourcePath, OutputPath(sourcePath), sourceHash,
                                  "template-v1", "config-v1", dependencies)
        IN  /\ genEntries' = r.gen
            /\ ret' = Returned("GenMarkGenerated", sourcePath, sourceHash, FALSE, r.err,
                               dependencies, NewPlan(<< >>))
            /\ UNCHANGED <<nodes, fs, outputs, entries, parseEntries, parsedFrom, steps, watch, once, tree, pass, stats>>

\* ret.flag holds the answer, ret.out the reason
LedgerNeedsRegeneration ==
    \E sourcePath \in LedgerSources, currentHash \in Hashes,
       dependencies \in SeqsUpTo(Files, MaxDeps) :
        LET r == NeedsRegeneration(genEntries, sourcePath, currentHash, dependencies)
        IN  /\ ret' = Returned("NeedsRegeneration", sourcePath, currentHash, r.needs, FALSE,
                               r.reason, NewPlan(<< >>))
            /\ UNCHANGED <<genEntries, nodes, fs, outputs, entries, parseEntries, parsedFrom, steps, watch, once, tree, pass, stats>>

LedgerInvalidateGeneration ==
    \E sourcePath \in LedgerSources :
        /\ genEntries' = InvalidateGeneration(genEntries, sourcePath)
        /\ ret' = Returned("InvalidateGeneration", sourcePath, "", FALSE, FALSE, << >>, NewPlan(<< >>))
        /\ UNCHANGED <<nodes, fs, outputs, entries, parseEntries, parsedFrom, steps, watch, once, tree, pass, stats>>

LedgerNext ==
    \/ LedgerMarkGenerated
    \/ LedgerNeedsRegeneration
    \/ LedgerInvalidateGeneration

LedgerSpec == GraphInit /\ [][LedgerNext]_vars

\* The two lists hold the same names the same number of times
IsPermutation(s, t) ==
    /\ Len(s) = Len(t)
    /\ \A x \in Range(s) \cup Range(t) :
        Cardinality({i \in 1..Len(s) : s[i] = x}) = Cardinality({i \in 1..Len(t) : t[i] = x})

\* NeedsRegeneration answers true and gives a reason
ReportsStale(gen, sourcePath, currentHash, dependencies) ==
    LET r == NeedsRegeneration(gen, sourcePath, currentHash, dependencies)
    IN  r.needs /\ r.reason # <<"">> /\ r.reason # << >>

\* C11: right after MarkGenerated(source, output, h, deps) succeeded,
\* NeedsRegeneration(source, h, deps') is false for every permutation deps' of
\* deps, and true with a non-empty reason for every other source hash and for
\* every deps' that names a different set of dependencies; for a source without
\* a record it is true with a non-empty reason.
C11_LedgerRoundTrip ==
    /\ \A sourcePath \in LedgerSources \ DOMAIN genEntries :
        \A currentHash \in Hashes, dependencies \in SeqsUpTo(Files, MaxDeps) :
            ReportsStale(genEntries, sourcePath, currentHash, dependencies)
    /\ (ret.op = "GenMarkGenerated" /\ ~ret.err) =>
        \A currentHash \in Hashes, dependencies \in SeqsUpTo(Files, MaxDeps) :
            /\ (currentHash = ret.arg /\ IsPermutation(dependencies, ret.out)) =>
                    ~NeedsRegeneration(genEntries, ret.path, currentHash, dependencies).needs
            /\ currentHash # ret.arg => ReportsStale(genEntries, ret.path, currentHash, dependencies)
            /\ Range(dependencies) # Range(ret.out) =>
                    ReportsStale(genEntries, ret.path, currentHash, dependencies)

\* MarkGenerated has just recorded two different dependencies given out of
\* sorted order, for a source that another source's record sits beside
C11_Witness ==
    /\ ret.op = "GenMarkGenerated" /\ ~ret.err
    /\ Len(ret.out) = 2 /\ Rank(ret.out[1]) > Rank(ret.out[2])
    /\ Has(genEntries, ret.path)
    /\ DOMAIN genEntries # {ret.path}

----------------------------------------------------------------------------
(* Claims about the plans the cache manager returns                        *)

\* The files named as dependents by the nodes of S
DependentsOf(n, S) == UNION {Range(n[g].Dependents) : g \in S \cap DOMAIN n}

RECURSIVE DependentsClosure(_, _)
DependentsClosure(n, S) ==
    IF DependentsOf(n, S) \subseteq S THEN S ELSE DependentsClosure(n, S \cup DependentsOf(n, S))

\* The files that transitively depend on f in the graph n: those reached from
\* f by one or more dependent edges
TransitiveDependents(n, f) == DependentsClosure(n, DependentsOf(n, {f}))

\* plan lists f with this reason and priority
Planned(plan, f, reason, priority) ==
    /\ f \in Range(plan.AffectedFiles)
    /\ Has(plan.Reasons, f) /\ plan.Reasons[f] = reason
    /\ Has(plan.Priority, f) /\ plan.Priority[f] = priority

\* C12: a write or create event on f that finds its content changed leaves f
\* without a parse entry and returns a plan that lists every other transitive
\* dependent of f with reason "dependency changed" and priority 1, and f itself
\* with reason "file content changed" and priority 2, f being its own transitive
\* dependent or not.
C12_ChangePlan ==
    \A f \in Files, eventType \in {"write", "create"} :
        LET r == HandleFileChange(CM, fs, f, eventType, "none")
        IN  r.changed =>
                /\ ~r.err
                /\ ~Has(r.cm.parse, f)
                /\ \A A \in TransitiveDependents(nodes, f) \ {f} :
                        Planned(r.plan, A, <<"dependency changed", f>>, 1)
                /\ Planned(r.plan, f, <<"file content changed">>, 2)

\* A changed file that is its own transitive dependent and had parse data has
\* just been handled
C12_Witness ==
    /\ ret.op = "HandleFileChange" /\ ret.arg \in {"write", "create"}
    /\ ret.flag /\ ~ret.err
    /\ ret.path \in TransitiveDependents(nodes, ret.path)
    /\ TransitiveDependents(nodes, ret.path) # {ret.path}
    /\ Has(parsedFrom, ret.path) /\ ~Has(parseEntries, ret.path)
    /\ Planned(ret.plan, ret.path, <<"file content changed">>, 2)

\* The ledger's answer for f as GetRegenerationPlan asks for it
LedgerCheck(f) ==
    NeedsRegeneration(genEntries, f, entries[f].ContentHash, GraphGetDependencies(nodes, f))

\* C13: in the plan of GetRegenerationPlan every changed file that has a content
\* entry and that the ledger reports stale is listed with the ledger's reason
\* and priority 2, reached by propagation from another changed file or not.
C13_LedgerWins ==
    \A changedFiles \in SeqsUpTo(Files, MaxDeps) :
        \A f \in Range(changedFiles) :
            (Has(entries, f) /\ LedgerCheck(f).needs) =>
                Planned(GetRegenerationPlan(CM, changedFiles), f, LedgerCheck(f).reason, 2)

\* GetRegenerationPlan has just answered for two changed files, the second of
\* them stale in the ledger and a transitive dependent of the first
C13_Witness ==
    /\ ret.op = "GetRegenerationPlan"
    /\ Len(ret.out) = 2 /\ ret.out[1] # ret.out[2]
    /\ ret.out[2] \in TransitiveDependents(nodes, ret.out[1])
    /\ Has(entries, ret.out[2]) /\ Has(genEntries, ret.out[2]) /\ LedgerCheck(ret.out[2]).needs
    /\ Planned(ret.plan, ret.out[2], LedgerCheck(ret.out[2]).reason, 2)

\* The changed files the ledger reports stale
StaleChanged(changedFiles) ==
    {f \in Range(changedFiles) : Has(entries, f) /\ LedgerCheck(f).needs}

\* The list in reverse order
RECURSIVE Reverse(_)
Reverse(list) == IF list = << >> THEN << >> ELSE Append(Reverse(Tail(list)), Head(list))

\* C14: the set of AffectedFiles of GetRegenerationPlan is the union of the
\* transitive dependents of the changed files together with the changed files
\* the ledger reports stale: a function of the dependent relation, the content
\* and ledger state and the set of changed files, the same for the list in
\* another order.
C14_AffectedSet ==
    LET dependents == [f \in Files |-> TransitiveDependents(nodes, f)]
        stale == {f \in Files : Has(entries, f) /\ LedgerCheck(f).needs}
    IN  \A changedFiles \in SeqsUpTo(Files, MaxDeps) :
            Range(GetRegenerationPlan(CM, changedFiles).AffectedFiles)
                = UNION {dependents[f] : f \in Range(changedFiles)}
                    \cup (stale \cap Range(changedFiles))

\* GetRegenerationPlan has just answered for two changed files that both have
\* dependents, one of them stale in the ledger; the plan lists the files in an
\* order that the reversed list would not give
C14_Witness ==
    /\ ret.op = "GetRegenerationPlan"
    /\ Len(ret.out) = 2 /\ ret.out[1] # ret.out[2]
    /\ TransitiveDependents(nodes, ret.out[1]) # {}
    /\ TransitiveDependents(nodes, ret.out[2]) # {}
    /\ StaleChanged(ret.out) # {}
    /\ ret.plan.AffectedFiles # GetRegenerationPlan(CM, Reverse(ret.out)).AffectedFiles

----------------------------------------------------------------------------
(* The content tracker driven through its own interface                    *)

\* The paths the tracker is asked about
TrackedFiles == {"a", "b"}

\* A tracked file is written (created if absent)
TrackedWrite ==
    \E f \in TrackedFiles, content \in Contents :
        /\ fs[f].mtime < MaxSteps
        /\ fs' = [fs EXCEPT ![f] = [exists |-> TRUE, content |-> content, mtime |-> @.mtime + 1]]
        /\ ret' = Returned("write", f, "", FALSE, FALSE, << >>, NewPlan(<< >>))
        /\ UNCHANGED <<nodes, outputs, entries, parseEntries, genEntries, parsedFrom, steps, watch, once, tree, pass, stats>>

\* A tracked file is removed
TrackedRemove ==
    \E f \in TrackedFiles :
        /\ fs[f].exists
        /\ fs' = [fs EXCEPT ![f].exists = FALSE]
        /\ ret' = Returned("remove", f, "", FALSE, FALSE, << >>, NewPlan(<< >>))
        /\ UNCHANGED <<nodes, outputs, entries, parseEntries, genEntries, parsedFrom, steps, watch, once, tree, pass, stats>>

\* ret.flag holds changed, ret.out the entry the call met; ret.arg tells whether
\* the event before this call was a call for the same file that reported
\* changed=false, and whether that call refreshed the entry
CallUpdateContent ==
    \E f \in TrackedFiles, fault \in Faults :
        LET r == UpdateContent(fs, entries, f, fault)
            quiet == ret.op = "UpdateContent" /\ ret.path = f /\ ~ret.flag /\ ~ret.err
            after == IF ~quiet THEN "other"
                     ELSE IF ret.out # << >> /\ Has(entries, f) /\ ret.out[1] # entries[f]
                     THEN "refresh" ELSE "quiet"
        IN  /\ entries' = r.entries
            /\ ret' = Returned("UpdateContent", f, after, r.changed, r.err,
                               IF Has(entries, f) THEN <<entries[f]>> ELSE << >>, NewPlan(<< >>))
            /\ UNCHANGED <<nodes, fs, outputs, parseEntries, genEntries, parsedFrom, steps, watch, once, tree, pass, stats>>

CallRemoveContent ==
    \E f \in TrackedFiles :
        /\ entries' = RemoveContent(entries, f)
        /\ ret' = Returned("RemoveContent", f, "", FALSE, FALSE, << >>, NewPlan(<< >>))
        /\ UNCHANGED <<nodes, fs, outputs, parseEntries, genEntries, parsedFrom, steps, watch, once, tree, pass, stats>>

ContentNext ==
    \/ TrackedWrite
    \/ TrackedRemove
    \/ CallUpdateContent
    \/ CallRemoveContent

ContentSpec == GraphInit /\ [][ContentNext]_vars

\* C15: for a file that does not exist UpdateContent leaves no entry and reports
\* changed=true, an entry having been stored or not; for a file that exists and
\* has no entry it stores one and reports changed=true.
C15_MissingOrNew ==
    \A f \in TrackedFiles :
        LET r == UpdateContent(fs, entries, f, "none")
        IN  /\ ~fs[f].exists => (~r.err /\ r.changed /\ ~Has(r.entries, f))
            /\ (fs[f].exists /\ ~Has(entries, f)) =>
                    (~r.err /\ r.changed /\ Has(r.entries, f)
                     /\ r.entries[f] = createContentEntry(fs[f]))

\* The stored entry of f does not match the size and mtime the file has now
MetadataMoved(f) ==
    /\ fs[f].exists /\ Has(entries, f)
    /\ (Size(fs[f].content) # entries[f].Size \/ fs[f].mtime # entries[f].ModTime)

\* C16: when the stored entry of a file differs from it in size or mtime,
\* UpdateContent reports changed=true exactly when the hash of the bytes differs
\* from the stored hash; when the hash is equal it reports changed=false, keeps
\* the stored hash and stores the observed mtime and size, so that the next
\* call answers without reading the file.
C16_HashDecides ==
    \A f \in TrackedFiles :
        MetadataMoved(f) =>
            LET r == UpdateContent(fs, entries, f, "none")
                next == UpdateContent(fs, r.entries, f, "hash")
            IN  /\ ~r.err
                /\ r.changed <=> calculateFileHash(fs[f].content) # entries[f].ContentHash
                /\ ~r.changed =>
                    /\ r.entries[f].ContentHash = entries[f].ContentHash
                    /\ r.entries[f].ModTime = fs[f].mtime
                    /\ r.entries[f].Size = Size(fs[f].content)
                    /\ ~next.err /\ ~next.changed /\ next.entries = r.entries

\* UpdateContent has just met an entry with an older mtime, found the bytes the
\* same and refreshed the entry
C16_Witness ==
    /\ ret.op = "UpdateContent" /\ ~ret.err /\ ~ret.flag
    /\ ret.out # << >>
    /\ fs[ret.path].exists /\ Has(entries, ret.path)
    /\ ret.out[1].ModTime # fs[ret.path].mtime
    /\ entries[ret.path].ModTime = fs[ret.path].mtime
    /\ entries[ret.path].ContentHash = ret.out[1].ContentHash

\* The stored hash of f in the entries map, << >> for none
StoredHash(ents, f) == IF Has(ents, f) THEN <<ents[f].ContentHash>> ELSE << >>

\* C17: a call of UpdateContent that reports changed=false leaves the stored
\* hash of the file as it was, and so does a second such call that follows it
\* with no write in between.
C17_QuietKeepsHash ==
    \A f \in TrackedFiles, fault \in Faults, fault2 \in Faults :
        LET r == UpdateContent(fs, entries, f, fault)
            second == UpdateContent(fs, r.entries, f, fault2)
        IN  ~r.changed =>
                /\ StoredHash(r.entries, f) = StoredHash(entries, f)
                /\ ~second.changed => StoredHash(second.entries, f) = StoredHash(entries, f)

\* UpdateContent has reported changed=false for the second time in a row for a
\* file; the first of the two calls refreshed the entry after a rewrite of the
\* same bytes, this one found size and mtime as stored
C17_Witness ==
    /\ ret.op = "UpdateContent" /\ ~ret.err /\ ~ret.flag
    /\ ret.arg = "refresh"
    /\ ret.out # << >> /\ Has(entries, ret.path)
    /\ ret.out[1] = entries[ret.path]
    /\ entries[ret.path].ModTime = fs[ret.path].mtime
    /\ fs[ret.path].mtime > 1

----------------------------------------------------------------------------
(* The watch loop, the clock and the callbacks                             *)

\* Paths as lists of segments below the root; the last segment of a route file
\* is the name of the file
EventPaths == {<<f>> : f \in Files} \cup {<<"main.go">>, <<".git">>, <<".git", "a">>}

\* FileWatcher.ExcludePaths
ExcludePaths == {<<".git">>}

\* Mutant of shouldExcludePath: only the exclude paths themselves are excluded
shouldExcludePath_exactOnly(path) == path \in ExcludePaths

\* The relative path is an exclude path or lies below one
shouldExcludePath(path) ==
    \E excludePath \in ExcludePaths :
        \/ path = excludePath
        \/ Len(path) > Len(excludePath) /\ SubSeq(path, 1, Len(excludePath)) = excludePath

\* strings.HasSuffix(event.Name, "route.go")
IsRouteFile(path) == path[Len(path)] \in Files

\* The paths that os.Stat reports as directories
DirPaths == {<<"api">>, <<"api", "v1">>, <<".git">>}

\* The directories whose creation the loop is notified of
CreatedDirs == {<<"api">>}

\* The directories of DirPaths strictly beneath path
Beneath(path) ==
    {d \in DirPaths : Len(d) > Len(path) /\ SubSeq(d, 1, Len(path)) = path}

\* fsnotify operations: an event carries a set of them
Ops == {{"Write"}, {"Remove"}, {"Create"}, {"Chmod"}, {"Write", "Remove"}, {"Remove", "Create"}}

\* Mutant of EventTypeOf: a remove operation is looked at before a write
EventTypeOf_removeFirst(op) ==
    IF "Remove" \in op THEN "delete"
    ELSE IF "Write" \in op THEN "write"
    ELSE IF "Create" \in op THEN "create"
    ELSE ""

\* The event type passed to the cache manager, "" for none
EventTypeOf(op) ==
    IF "Write" \in op THEN "write"
    ELSE IF "Remove" \in op THEN "delete"
    ELSE IF "Create" \in op THEN "create"
    ELSE ""

\* The change events one notification hands to the cache manager
dispatch(path, op) ==
    IF IsRouteFile(path) /\ EventTypeOf(op) # ""
    THEN << [FilePath |-> path[Len(path)], EventType |-> EventTypeOf(op)] >>
    ELSE << >>

\* HandleFileChange for each change event of calls; the result of the last call
RECURSIVE handleCalls(_, _, _, _)
handleCalls(last, files, calls, fault) ==
    IF calls = << >> THEN last
    ELSE handleCalls(HandleFileChange(last.cm, files, Head(calls).FilePath, Head(calls).EventType, fault),
                     files, Tail(calls), fault)

\* The watches added for a notification, beneath being the directories that
\* exist beneath path: the created directory alone
addedWatches(path, op, beneath) ==
    IF "Create" \in op /\ path \in DirPaths /\ ~shouldExcludePath(path) THEN {path} ELSE {}

\* One turn of the loop on an event, from the watcher w and the layers cm: an
\* excluded path is skipped; for a route file the cache manager handles the
\* change (its error and its plan are only logged); a created directory is
\* added to the watches; then the debounce timer is restarted
handleEvent(w, cm, files, path, op, beneath, fault) ==
    IF shouldExcludePath(path)
    THEN [cm |-> cm, watch |-> w, excluded |-> TRUE, calls |-> << >>, plan |-> NewPlan(<< >>)]
    ELSE LET calls == dispatch(path, op)
             handled == handleCalls([cm |-> cm, plan |-> NewPlan(<< >>)], files, calls, fault)
         IN  [cm |-> handled.cm,
              watch |-> debounceGenerate(
                            [w EXCEPT !.dirs = @ \cup addedWatches(path, op, beneath),
                                      !.quiet = 0, !.fires = 0, !.seen = TRUE,
                                      !.burst = IF w.seen /\ w.quiet < Window
                                                THEN (IF @ < 2 THEN @ + 1 ELSE 2) ELSE 1]),
              excluded |-> FALSE, calls |-> calls, plan |-> handled.plan]

\* The session when the loop starts: OnStart has run one generation pass over a
\* project, and the root directory is watched
WatchInit ==
    /\ ret = NoReturn
    /\ fs = FsInit
    /\ steps = 0
    /\ watch = NewFileWatcher
    /\ once = NewOnce
    /\ tree = NewRouteTree
    /\ pass = NewPass
    /\ stats = NewStats
    /\ \E project \in Projects :
        LET session == FirstPass(project)
        IN  /\ entries = session.cm.content
            /\ parseEntries = session.cm.parse
            /\ nodes = session.cm.deps
            /\ genEntries = session.cm.generation
            /\ outputs = session.outputs
            /\ parsedFrom = [f \in DOMAIN session.cm.parse |-> OnDisk(FsInit, f)]

\* The loop receives an event and handles it, MaxSteps events at most.  ret.flag tells whether the path
\* was excluded, ret.path and ret.arg the file and the kind handed to the cache
\* manager, ret.out the operations of a notification that was handed on and
\* the path of one that was excluded.
WatchEvent ==
    \E path \in EventPaths \cup CreatedDirs, op \in Ops, fault \in Faults :
      \E beneath \in SUBSET Beneath(path) :
        /\ watch.loop = "running"
        /\ Step
        /\ (shouldExcludePath(path) \/ dispatch(path, op) = << >>) => fault = "none"
        /\ \E r \in {handleEvent(watch, CM, fs, path, op, beneath, fault)} :
               /\ Becomes(r.cm)
               /\ watch' = r.watch
               /\ ret' = Returned("WatchEvent",
                                  IF r.calls = << >> THEN "" ELSE r.calls[Len(r.calls)].FilePath,
                                  IF r.calls = << >> THEN "" ELSE r.calls[Len(r.calls)].EventType,
                                  r.excluded, FALSE,
                                  IF r.excluded THEN path ELSE IF r.calls = << >> THEN {} ELSE op,
                                  NewPlan(<< >>))
        /\ UNCHANGED <<fs, outputs, parsedFrom, once, tree, pass, stats>>

\* The events channel is closed: Watch returns an error
WatchEventsClosed ==
    /\ watch.loop = "running"
    /\ watch' = [watch EXCEPT !.loop = "returned", !.err = TRUE]
    /\ ret' = Returned("WatchEventsClosed", "", "", FALSE, TRUE, << >>, NewPlan(<< >>))
    /\ UNCHANGED <<nodes, fs, outputs, entries, parseEntries, genEntries, parsedFrom, steps, once, tree, pass, stats>>

\* An error arrives on the errors channel: it is logged and the loop goes on
WatchError ==
    /\ watch.loop = "running"
    /\ ret' = Returned("WatchError", "", "", FALSE, FALSE, << >>, NewPlan(<< >>))
    /\ UNCHANGED <<nodes, fs, outputs, entries, parseEntries, genEntries, parsedFrom, steps, watch, once, tree, pass, stats>>

\* The errors channel is closed: Watch returns an error
WatchErrorsClosed ==
    /\ watch.loop = "running"
    /\ watch' = [watch EXCEPT !.loop = "returned", !.err = TRUE]
    /\ ret' = Returned("WatchErrorsClosed", "", "", FALSE, TRUE, << >>, NewPlan(<< >>))
    /\ UNCHANGED <<nodes, fs, outputs, entries, parseEntries, genEntries, parsedFrom, steps, once, tree, pass, stats>>

\* The clock advances one tick; a timer whose time is up starts its callback
\* in a goroutine of its own
Tick ==
    LET firing == {t \in watch.timers : t.left = 1}
    IN  /\ watch.passes + Cardinality(firing) <= MaxPasses
        /\ watch' = [watch EXCEPT
                        !.timers = {[t EXCEPT !.left = @ - 1] : t \in watch.timers \ firing},
                        !.passes = @ + Cardinality(firing),
                        !.fires = @ + Cardinality(firing),
                        !.quiet = IF @ < Window THEN @ + 1 ELSE @]
        /\ UNCHANGED <<nodes, ret, fs, outputs, entries, parseEntries, genEntries, parsedFrom, steps, once, tree, pass, stats>>

\* An on-change callback completes: its generation pass has gone over the routes
OnChangeDone ==
    /\ watch.passes > 0
    /\ LET done == generateAll([cm |-> CM, outputs |-> outputs], WalkOrder)
       IN  /\ Becomes(done.cm)
           /\ outputs' = done.outputs
    /\ watch' = [watch EXCEPT !.passes = @ - 1]
    /\ ret' = Returned("OnChange", "", "", FALSE, FALSE, << >>, NewPlan(<< >>))
    /\ UNCHANGED <<fs, parsedFrom, steps, once, tree, pass, stats>>

WatchNext ==
    \/ WatchEvent
    \/ WatchEventsClosed
    \/ WatchError
    \/ WatchErrorsClosed
    \/ Tick
    \/ OnChangeDone

WatchSpec == WatchInit /\ [][WatchNext]_vars

C19_OnePassAtATime == watch.passes <= 1

\* C20: when the events channel has been closed, and when an error has been
\* received from the errors channel, Watch has returned an error; a loop that
\* has returned handles no further event.
C20_LoopEnds ==
    /\ ret.op \in {"WatchEventsClosed", "WatchError"} => (watch.loop = "returned" /\ watch.err)
    /\ watch.loop = "returned" => ~ENABLED WatchEvent

\* A path that is an exclude path or has one as a proper prefix
BelowExcluded(path) == \E n \in 1..Len(path) : SubSeq(path, 1, n) \in ExcludePaths

\* The operations that are dispatched, in order of precedence, with their kinds
Precedence == << <<"Write", "write">>, <<"Remove", "delete">>, <<"Create", "create">> >>

ExpectedKind(op) ==
    LET carried == {i \in 1..Len(Precedence) : Precedence[i][1] \in op}
    IN  IF carried = {} THEN ""
        ELSE Precedence[CHOOSE i \in carried : \A j \in carried : i <= j][2]

\* C21: in every reachable state, a turn of the loop on a notification whose
\* path is not excluded hands exactly one change event to HandleFileChange when
\* the path is a route file and the notification carries a write, remove or
\* create operation, of kind write, delete or create (write before remove
\* before create); the layers after the turn are those that one HandleFileChange
\* call leaves, in place when the timer has been restarted for the
\* notification.  Any other notification hands on nothing and leaves the layers
\* as they were.
C21_Dispatch ==
    \A path \in EventPaths \cup CreatedDirs, op \in Ops, fault \in Faults :
        ~BelowExcluded(path) =>
            LET r == handleEvent(watch, CM, fs, path, op, {}, fault)
                file == path[Len(path)]
                kind == ExpectedKind(op)
            IN  /\ ~r.excluded
                /\ r.watch.timers = {[id |-> r.watch.DebounceTimer, left |-> Window]}
                /\ IF file \in Files /\ kind # ""
                   THEN /\ r.calls = << [FilePath |-> file, EventType |-> kind] >>
                        /\ r.cm = HandleFileChange(CM, fs, file, kind, fault).cm
                        /\ r.plan = HandleFileChange(CM, fs, file, kind, fault).plan
                   ELSE /\ r.calls = << >>
                        /\ r.cm = CM

\* A notification carrying both write and remove on a route file has been
\* handed on as a write, and its timer is pending
C21_Witness ==
    /\ ret.op = "WatchEvent"
    /\ ~ret.flag
    /\ ret.out = {"Write", "Remove"}
    /\ ret.arg = "write"
    /\ ret.path \in DOMAIN entries
    /\ watch.timers = {[id |-> watch.DebounceTimer, left |-> Window]}

\* C22: in every reachable state, a turn of the loop on the creation of a
\* directory that is not excluded leaves a watch on that directory and on every
\* directory already beneath it, and removes no watch.
C22_SubtreeWatched ==
    \A path \in CreatedDirs, op \in Ops : \A beneath \in SUBSET Beneath(path) :
        ("Create" \in op /\ ~BelowExcluded(path)) =>
            LET r == handleEvent(watch, CM, fs, path, op, beneath, "none")
            IN  /\ ({path} \cup beneath) \subseteq r.watch.dirs
                /\ watch.dirs \subseteq r.watch.dirs

\* C23: in every reachable state, a turn of the loop on an event whose path is
\* an exclude path or lies beneath one hands nothing to the cache manager and
\* leaves the layers, the watches and the debounce timer as they were.
C23_ExcludedDropped ==
    \A path \in EventPaths \cup DirPaths, op \in Ops, fault \in Faults :
        BelowExcluded(path) =>
            LET r == handleEvent(watch, CM, fs, path, op, {}, fault)
            IN  /\ r.excluded
                /\ r.calls = << >>
                /\ r.cm = CM
                /\ r.watch = watch

\* An event beneath an exclude path arrived while a timer was pending, and the
\* timer is as the clock left it
C23_Witness ==
    /\ ret.op = "WatchEvent"
    /\ ret.flag
    /\ ret.out = <<".git", "a">>
    /\ watch.quiet = 1
    /\ watch.timers = {[id |-> watch.DebounceTimer, left |-> Window - 1]}

----------------------------------------------------------------------------
(* The cache manager: deletion, failures, lookups, integrity               *)

\* The files a graph names, as nodes or in the lists of its nodes
NamedIn(n) ==
    DOMAIN n \cup UNION {Range(n[g].Dependencies) \cup Range(n[g].Dependents) : g \in DOMAIN n}

\* The maps hold the same for every path but f
SameBut(before, after, f) ==
    /\ DOMAIN before \ {f} = DOMAIN after \ {f}
    /\ \A g \in DOMAIN before \ {f} : before[g] = after[g]

\* C24: in every reachable state, HandleFileChange with a delete event for f
\* leaves no content entry, no parse entry and no generation record for f and a
\* graph that does not name f, as a node or in any list; the content, parse and
\* generation entries of every other file are as before.
C24_DeleteForgets ==
    \A f \in Files :
        LET r == HandleFileChange(CM, fs, f, "delete", "none")
        IN  /\ ~r.err
            /\ ~Has(r.cm.content, f)
            /\ ~Has(r.cm.parse, f)
            /\ ~Has(r.cm.generation, f)
            /\ f \notin NamedIn(r.cm.deps)
            /\ SameBut(CM.content, r.cm.content, f)
            /\ SameBut(CM.parse, r.cm.parse, f)
            /\ SameBut(CM.generation, r.cm.generation, f)

\* A delete event has just been handled for a file that had parse data, and
\* other files keep entries in the content, parse and generation layers and
\* nodes in the graph
C24_Witness ==
    /\ ret.op = "HandleFileChange" /\ ret.arg = "delete" /\ ~ret.err
    /\ Has(parsedFrom, ret.path)
    /\ ret.path \notin DOMAIN entries \cup DOMAIN parseEntries \cup DOMAIN genEntries \cup NamedIn(nodes)
    /\ entries # EmptyMap /\ parseEntries # EmptyMap /\ genEntries # EmptyMap /\ nodes # EmptyMap

\* C25: when HandleFileChange has returned an error for a write or create
\* event (UpdateContent failed to stat or to hash the file), the returned plan
\* lists the file in AffectedFiles.
C25_FailureMeansRegenerate ==
    (ret.op = "HandleFileChange" /\ ret.arg \in {"write", "create"} /\ ret.err) =>
        ret.path \in Range(ret.plan.AffectedFiles)

\* The lookups of the layers that return (value, exists); the value is << >> for nil
GetContent(ents, filePath) ==
    IF Has(ents, filePath) THEN [entry |-> <<ents[filePath]>>, exists |-> TRUE]
    ELSE [entry |-> << >>, exists |-> FALSE]

ParseGetParsedFile(parse, filePath) ==
    IF Has(parse, filePath) THEN [parsed |-> <<parse[filePath]>>, exists |-> TRUE]
    ELSE [parsed |-> << >>, exists |-> FALSE]

GetNode(n, filePath) ==
    IF Has(n, filePath) THEN [node |-> <<n[filePath]>>, exists |-> TRUE]
    ELSE [node |-> << >>, exists |-> FALSE]

GetGenerationInfo(gen, sourcePath) ==
    IF Has(gen, sourcePath) THEN [info |-> <<gen[sourcePath]>>, exists |-> TRUE]
    ELSE [info |-> << >>, exists |-> FALSE]

\* C26: in every reachable state, a lookup of a path that a layer does not hold
\* answers without an error, with a false flag or an empty value: GetContent,
\* the parse store's GetParsedFile and GetDependencies, the graph's
\* GetDependencies, GetDependents, GetNode and GetAffectedFiles, and
\* GetGenerationInfo.
C26_MissIsNoError ==
    \A f \in Files :
        /\ ~Has(entries, f) => GetContent(entries, f) = [entry |-> << >>, exists |-> FALSE]
        /\ ~Has(parseEntries, f) =>
            /\ ParseGetParsedFile(parseEntries, f) = [parsed |-> << >>, exists |-> FALSE]
            /\ ParseGetDependencies(parseEntries, f) = [dependencies |-> << >>, err |-> FALSE]
        /\ ~Has(nodes, f) =>
            /\ GraphGetDependencies(nodes, f) = << >>
            /\ GraphGetDependents(nodes, f) = << >>
            /\ GetAffectedFiles(nodes, f) = << >>
            /\ GetNode(nodes, f) = [node |-> << >>, exists |-> FALSE]
        /\ ~Has(genEntries, f) => GetGenerationInfo(genEntries, f) = [info |-> << >>, exists |-> FALSE]

\* C27: in every reachable state and for every order in which the graph's keys
\* are visited, ValidateIntegrity returns no error and leaves the four layers
\* as they were, whether or not the graph has cycles and whether or not every
\* parsed file has a content entry.
C27_ValidateSucceeds ==
    \A order \in Perms(DOMAIN nodes) :
        LET r == ValidateIntegrity(CM, order)
        IN  ~r.err /\ r.cm = CM

\* ValidateIntegrity has just returned for a cache whose graph has a cycle and
\* whose parse store holds a file without content entry
C27_Witness ==
    /\ ret.op = "ValidateIntegrity" /\ ~ret.err
    /\ ret.flag
    /\ ret.out # << >>
    /\ \E f \in DOMAIN parseEntries : ~Has(entries, f)
    /\ Cyclic(nodes)

----------------------------------------------------------------------------
(* GetCacheManager called from several goroutines                          *)

\* What the calls of GetCacheManager leave alone
session == <<nodes, ret, fs, outputs, entries, parseEntries, genEntries, parsedFrom, steps, watch,
             tree, pass, stats>>

\* The goroutine t moves to the position to
Goto(o, t, to) == [o EXCEPT !.pc[t] = to]

\* A goroutine calls GetCacheManager
OnceCall(t) ==
    /\ once.pc[t] = "idle"
    /\ once' = Goto([once EXCEPT !.after[t] = once.custom # 0], t, "Do")
    /\ UNCHANGED session

\* Once.Do reads done: set, Do returns; not set, it goes on to doSlow
OnceDo(t) ==
    /\ once.pc[t] = "Do"
    /\ once' = Goto(once, t, IF once.done THEN "return" ELSE "doSlow")
    /\ UNCHANGED session

\* doSlow locks the mutex of the Once
OnceLock(t) ==
    /\ once.pc[t] = "doSlow"
    /\ mayLock(once)
    /\ once' = Goto([once EXCEPT !.m = t], t, "locked")
    /\ UNCHANGED session

\* Under the lock done is read again: set, the lock is released; not set, the
\* function runs: it constructs a cache manager and stores it in the variable
OnceRun(t) ==
    /\ once.pc[t] = "locked"
    /\ once' = IF once.done
               THEN Goto([once EXCEPT !.m = IF @ = t THEN 0 ELSE @], t, "return")
               ELSE Goto([once EXCEPT !.built = @ + 1, !.globalCacheManager = once.built + 1],
                         t, "ran")
    /\ UNCHANGED session

\* The function has returned: done is set and the lock released
OnceDone(t) ==
    /\ once.pc[t] = "ran"
    /\ once' = Goto([once EXCEPT !.done = TRUE, !.m = IF @ = t THEN 0 ELSE @], t, "return")
    /\ UNCHANGED session

\* return globalCacheManager
OnceReturn(t) ==
    /\ once.pc[t] = "return"
    /\ once' = Goto([once EXCEPT !.returned = @ \cup {once.globalCacheManager},
                                 !.later = IF once.after[t] THEN @ \cup {once.globalCacheManager}
                                           ELSE @],
                     t, "idle")
    /\ UNCHANGED session

OnceNext ==
    \E t \in Goroutines :
        \/ OnceCall(t)
        \/ OnceDo(t)
        \/ OnceLock(t)
        \/ OnceRun(t)
        \/ OnceDone(t)
        \/ OnceReturn(t)

OnceSpec == GraphInit /\ [][OnceNext]_vars

\* C28: NewCacheManager has constructed at most one instance, and every call of
\* GetCacheManager that has returned, from whichever goroutine, has returned
\* that one instance.
C28_OneManager ==
    /\ once.built <= 1
    /\ once.returned \subseteq {1}
    /\ once.returned # {} => once.globalCacheManager = 1

\* A call has returned the instance while another goroutine, whose first call
\* ran at the same time, holds the lock and finds the work done
C28_Witness ==
    /\ once.returned = {1}
    /\ once.done
    /\ \E t \in Goroutines : once.pc[t] = "locked"

----------------------------------------------------------------------------
(* The route tree filled by the walker                                     *)

\* Routes added between two resets, at most
MaxRoutes == 3

\* The route directories the walker finds, relative to the root
RelPaths ==
    {<<Users>>, <<Users, IdParam>>, <<Profiles>>, <<Dot, Users>>, <<Marker>>,
     <<IdParam, PostParam>>, <<Dot>>, <<Profiles, IdParam>>}

\* The configurations, as far as CalculateOutputPaths reads them, and the
\* module names
Configs == {[Output |-> <<"g", "e", "n">>], [Output |-> <<"o", "u", "t", "/", "g", "o">>]}
ModuleNames == {<<"a", "p", "p">>}

\* What the variables outside the tree keep
beyondTree == <<nodes, fs, outputs, entries, parseEntries, genEntries, parsedFrom, steps, watch, once,
               pass, stats>>

\* ret.out holds the path of the parsed file added
CallAddRoute ==
    \E relPath \in RelPaths, methods \in {<< >>, <<"GET">>} :
        /\ Len(tree.Routes) < MaxRoutes
        /\ tree' = AddRoute(tree, ParsedRoute(relPath, methods))
        /\ ret' = Returned("AddRoute", "", "", FALSE, FALSE, relPath, NewPlan(<< >>))
        /\ UNCHANGED beyondTree

CallReset ==
    /\ tree' = NewRouteTree
    /\ ret' = Returned("Reset", "", "", FALSE, FALSE, << >>, NewPlan(<< >>))
    /\ UNCHANGED beyondTree

\* ret.out holds the output root
CallCalculateOutputPaths ==
    \E cfg \in Configs, moduleName \in ModuleNames :
        /\ tree' = CalculateOutputPaths(tree, cfg, moduleName)
        /\ ret' = Returned("CalculateOutputPaths", "", "", FALSE, FALSE, cfg.Output, NewPlan(<< >>))
        /\ UNCHANGED beyondTree

RouteNext ==
    \/ CallAddRoute
    \/ CallReset
    \/ CallCalculateOutputPaths

RouteSpec == GraphInit /\ [][RouteNext]_vars

\* The routes of users, users/id_ and profiles have been added, in that order
ThreeRoutes ==
    /\ Len(tree.Routes) = 3
    /\ tree.Routes[1].FolderPath = Users
    /\ tree.Routes[2].FolderPath = Users \o <<"/">> \o IdParam
    /\ tree.Routes[3].FolderPath = Profiles

\* C29: once the routes of the directories users, users/id_ and profiles have
\* been added, the three Route records are flagged leaf and have the API paths
\* /users, /users/:id and /profiles, the second with the one parameter id; and
\* every route's API path is its segments' API names separated by slashes.
C29_ApiPaths ==
    /\ ThreeRoutes =>
        /\ \A i \in 1..3 : tree.Routes[i].IsLeaf
        /\ tree.Routes[1].APIPath = <<"/">> \o Users
        /\ tree.Routes[2].APIPath = <<"/">> \o Users \o <<"/", ":", "i", "d">>
        /\ tree.Routes[3].APIPath = <<"/">> \o Profiles
        /\ tree.Routes[2].Parameters = << <<"i", "d">> >>
    /\ \A i \in 1..Len(tree.Routes) :
        LET route == tree.Routes[i]
        IN  route.APIPath = Join([j \in 1..Len(route.Segments) |-> route.Segments[j].APIName], <<"/">>)

\* The folder names of the route directories
FolderNames == UNION {Range(relPath) : relPath \in RelPaths}

\* C30: a segment is a parameter segment exactly when its folder name ends with
\* the marker "_"; its parameter name is then the folder name without that
\* last character and its API name ":" followed by the parameter name;
\* otherwise its API name is the folder name.  The Parameters of every route
\* are the parameter names of its parameter segments, in path order.
C30_Parameters ==
    /\ \A folderName \in FolderNames :
        LET segment == ParseSegment(folderName)
            marked == folderName # << >> /\ folderName[Len(folderName)] = "_"
        IN  /\ segment.Name = folderName
            /\ segment.IsParam <=> marked
            /\ marked => /\ segment.ParamName = SubSeq(folderName, 1, Len(folderName) - 1)
                         /\ segment.APIName = <<":">> \o segment.ParamName
            /\ ~marked => segment.APIName = folderName
    /\ \A i \in 1..Len(tree.Routes) :
        LET route == tree.Routes[i]
            at == {j \in 1..Len(route.Segments) : route.Segments[j].IsParam}
        IN  /\ Len(route.Parameters) = Cardinality(at)
            /\ \A k \in 1..Len(route.Parameters) :
                \E j \in at :
                    /\ Cardinality({l \in at : l <= j}) = k
                    /\ route.Parameters[k] = route.Segments[j].ParamName

\* A route with two parameter segments, the second ending with two markers,
\* has been added
C30_Witness ==
    \E i \in 1..Len(tree.Routes) :
        /\ tree.Routes[i].Parameters = << <<"i", "d">>, <<"p", "_">> >>
        /\ tree.Routes[i].APIPath = <<":", "i", "d", "/", ":", "p", "_">>

\* The nodes of the tree below the directory of relPath
Descendants(relPath) ==
    {k \in DOMAIN tree.nodes :
        /\ Len(k) > Len(validPartsOf(relPath))
        /\ SubSeq(k, 1, Len(validPartsOf(relPath))) = validPartsOf(relPath)}

\* C31: in every reachable tree and for every route added to it, the Route
\* recorded is flagged leaf exactly when no node lies below the route's
\* directory at that moment, and the Routes recorded before, their flags
\* included, are as they were.
C31_LeafSnapshot ==
    \A relPath \in RelPaths, methods \in {<< >>, <<"GET">>} :
        LET after == AddRoute(tree, ParsedRoute(relPath, methods))
        IN  IF validPartsOf(relPath) = << >> THEN after = tree
            ELSE /\ Len(after.Routes) = Len(tree.Routes) + 1
                 /\ SubSeq(after.Routes, 1, Len(tree.Routes)) = tree.Routes
                 /\ after.Routes[Len(after.Routes)].IsLeaf <=> Descendants(relPath) = {}

\* users was recorded as a leaf, users/id_ was added after it, and users
\* recorded once more is not a leaf: the first record is still flagged leaf
C31_Witness ==
    /\ Len(tree.Routes) = 3
    /\ tree.Routes[1].APIPath = Users /\ tree.Routes[1].IsLeaf
    /\ tree.Routes[2].APIPath = Users \o <<"/", ":", "i", "d">>
    /\ tree.Routes[3].APIPath = Users /\ ~tree.Routes[3].IsLeaf

\* A folder path as filepath.Rel gives it to the walker: it is its own Clean
IsClean(folderPath) == Clean(folderPath) = folderPath

\* C32: whatever the tree holds and whatever an earlier call wrote, after
\* CalculateOutputPaths two routes with the same folder path have the same
\* four derived fields, the fields are those a call on a tree never calculated
\* before gives, and two routes whose folder paths are distinct (and are as
\* the walker supplies them, cleaned relative paths) have distinct output paths.
C32_OutputPaths ==
    \A cfg \in Configs, moduleName \in ModuleNames :
        LET after == CalculateOutputPaths(tree, cfg, moduleName).Routes
            Derived(route) == <<route.RelativeOutput, route.OutputPath, route.ImportPath,
                                route.PackageAlias>>
        IN  /\ \A before \in Configs :
                CalculateOutputPaths(CalculateOutputPaths(tree, before, moduleName), cfg, moduleName).Routes
                    = after
            /\ \A i, j \in 1..Len(after) :
                /\ after[i].FolderPath = after[j].FolderPath => Derived(after[i]) = Derived(after[j])
                /\ (/\ after[i].FolderPath # after[j].FolderPath
                    /\ IsClean(after[i].FolderPath) /\ IsClean(after[j].FolderPath))
                   => after[i].OutputPath # after[j].OutputPath

\* The output paths of users/id_ and profiles/id_, two directories with the
\* same last element, have been calculated below out/go, over paths below gen
C32_Witness ==
    /\ ret.op = "CalculateOutputPaths" /\ ret.out = <<"o", "u", "t", "/", "g", "o">>
    /\ Len(tree.Routes) = 3
    /\ tree.Routes[1].FolderPath = Users \o <<"/">> \o IdParam
    /\ tree.Routes[2].FolderPath = Profiles \o <<"/">> \o IdParam
    /\ tree.Routes[3].FolderPath = Users \o <<"/">> \o IdParam
    /\ tree.Routes[1].OutputPath = <<"o", "u", "t", "/", "g", "o", "/">> \o RoutesDir \o <<"/">> \o Users
                                       \o <<"/">> \o IdParam \o <<"/">> \o GenRouteGo
    /\ tree.Routes[3].OutputPath = tree.Routes[1].OutputPath
    /\ tree.Routes[2].OutputPath # tree.Routes[1].OutputPath

----------------------------------------------------------------------------
(* SetParsedFile and the graph                                             *)

\* The dependencies a parsed file names: its local imports, then its external ones
Extracted(p) == IF p.DependenciesNil THEN << >> ELSE p.LocalImports \o p.ExternalImports

\* C33: in every reachable state of the manager and for every file and parsed
\* file offered, SetParsedFile with no parsed file fails and leaves the manager
\* as it is; otherwise it succeeds, the parse store holds the parsed file, the
\* node of f (created when missing) lists exactly the dependencies extracted
\* from it, every one of them has a node (created when missing) that lists f
\* as a dependent, and no other node lists f as a dependent.
C33_DifferentialUpdate ==
    \A f \in Files, parsed \in Offered :
        LET r == SetParsedFile(CM, f, parsed)
            n == r.cm.deps
        IN  IF parsed = << >> THEN r.err /\ r.cm = CM
            ELSE /\ ~r.err
                 /\ r.cm.parse = Put(parseEntries, f, parsed[1])
                 /\ Has(n, f) /\ n[f].Dependencies = Extracted(parsed[1])
                 /\ \A d \in Range(Extracted(parsed[1])) : Has(n, d) /\ f \in Range(n[d].Dependents)
                 /\ \A d \in DOMAIN n :
                        d \notin Range(Extracted(parsed[1])) => f \notin Range(n[d].Dependents)

\* SetParsedFile has given a, which named b and d, the dependencies d and x:
\* b has lost its dependent a, and x, which had no node, has one
C33_Witness ==
    /\ ret.op = "SetParsedFile" /\ ret.path = "a" /\ ~ret.err
    /\ Has(nodes, "a") /\ nodes["a"].Dependencies = <<"d", "x">>
    /\ Has(nodes, "b") /\ "a" \notin Range(nodes["b"].Dependents)
    /\ Has(parseEntries, "b") /\ "d" \in Range(parseEntries["b"].LocalImports)
    /\ Has(nodes, "x") /\ nodes["x"].Dependents = <<"a">>
    /\ "a" \in Range(nodes["d"].Dependents)

----------------------------------------------------------------------------
(* A graph built file by file, and the graph rebuilt from the snapshot     *)

\* Each file is pushed at most once into a manager that starts empty; ret.out
\* holds the parsed file pushed
PushParsedFile ==
    \E f \in Files \ DOMAIN parseEntries, p \in ParsedFiles :
        /\ ret.op # "BuildGraph"
        /\ Len(p.LocalImports) <= 1
        /\ Becomes(SetParsedFile(CM, f, <<p>>).cm)
        /\ ret' = Returned("SetParsedFile", f, "", FALSE, FALSE, <<p>>, NewPlan(<< >>))
        /\ UNCHANGED <<fs, outputs, parsedFrom, steps, watch, once, tree, pass, stats>>

\* The graph is rebuilt from GetAllParsedFiles, the map ranged over in some order
Rebuild ==
    \E order \in Perms(DOMAIN parseEntries) :
        /\ ret.op # "BuildGraph"
        /\ nodes' = BuildGraph(parseEntries, order)
        /\ ret' = Returned("BuildGraph", "", "", FALSE, FALSE, << >>, NewPlan(<< >>))
        /\ UNCHANGED others

RebuildNext ==
    \/ PushParsedFile
    \/ Rebuild

RebuildSpec == GraphInit /\ [][RebuildNext]_vars

\* The dependency edges of a graph
Edges(n) == {e \in (DOMAIN n) \X (DOMAIN n) : e[2] \in Range(n[e[1]].Dependencies)}

\* C34: while files are pushed one by one into an empty manager, the graph has
\* the nodes and the dependency edges of the graph BuildGraph makes of the
\* parsed files pushed so far, and each of its edges A -> B is a local import
\* of A's parsed file.
C34_RebuildEquivalence ==
    ret.op # "BuildGraph" =>
        /\ \A order \in Perms(DOMAIN parseEntries) :
            /\ DOMAIN nodes = DOMAIN BuildGraph(parseEntries, order)
            /\ Edges(nodes) = Edges(BuildGraph(parseEntries, order))
        /\ \A e \in Edges(nodes) :
            Has(parseEntries, e[1]) /\ e[2] \in Range(parseEntries[e[1]].LocalImports)

----------------------------------------------------------------------------
(* A generation pass beside the watch loop                                 *)

\* The walk over the route files on disk: a file found in the cache is taken
\* from it, any other is parsed and stored.  from holds, for each file, the
\* bytes its parse data was read from
RECURSIVE walkAll(_, _, _, _, _)
walkAll(cm, from, files, project, walk) ==
    IF walk = << >> THEN [cm |-> cm, from |-> from]
    ELSE LET f == Head(walk)
             got == GetParsedFile(cm, files, f, "none")
         IN  IF ~files[f].exists THEN walkAll(cm, from, files, project, Tail(walk))
             ELSE IF got.hit THEN walkAll(got.cm, from, files, project, Tail(walk))
             ELSE walkAll(SetParsedFile(got.cm, f, <<project[f]>>).cm, Put(from, f, OnDisk(files, f)),
                          files, project, Tail(walk))

\* A development session after its first pass, the watch loop running
RaceInit ==
    /\ ret = NoReturn
    /\ fs = FsInit
    /\ steps = 0
    /\ watch = NewFileWatcher
    /\ once = NewOnce
    /\ tree = NewRouteTree
    /\ stats = NewStats
    /\ \E project \in Projects :
        LET first == FirstPass(project)
        IN  /\ entries = first.cm.content
            /\ parseEntries = first.cm.parse
            /\ nodes = first.cm.deps
            /\ genEntries = first.cm.generation
            /\ outputs = first.outputs
            /\ parsedFrom = [f \in DOMAIN first.cm.parse |-> OnDisk(FsInit, f)]
            /\ pass = [NewPass EXCEPT !.project = project,
                                      !.built = [f \in first.outputs |-> OnDisk(FsInit, f)]]

\* An editor writes a source file
RaceFsWrite ==
    \E f \in Files, content \in Contents :
        /\ Step
        /\ fs' = [fs EXCEPT ![f] = [exists |-> TRUE, content |-> content, mtime |-> @.mtime + 1]]
        /\ UNCHANGED <<nodes, ret, outputs, entries, parseEntries, genEntries, parsedFrom, watch, once,
                       tree, pass, stats>>

\* The watch loop handles the write notification of a route file
RaceHandleWrite ==
    \E f \in Files :
        /\ fs[f].exists
        /\ \E r \in {HandleFileChange(CM, fs, f, "write", "none")} :
            /\ Becomes(r.cm)
            /\ ret' = Returned("HandleFileChange", f, "write", r.changed, r.err, << >>, NewPlan(<< >>))
        /\ pass' = IF pass.pc = "walked" /\ f \in Range(pass.todo)
                   THEN [pass EXCEPT !.during = @ \cup {f}] ELSE pass
        /\ UNCHANGED <<fs, outputs, parsedFrom, steps, watch, once, tree, stats>>

\* The pass walks the route directories: it holds every route's parsed data
PassWalk ==
    /\ pass.pc = "idle"
    /\ \E w \in {walkAll(CM, parsedFrom, fs, pass.project, WalkOrder)} :
        /\ Becomes(w.cm)
        /\ parsedFrom' = w.from
        /\ pass' = [pass EXCEPT !.pc = "walked", !.parsed = w.from, !.during = {},
                                !.todo = SelectSeq(WalkOrder, LAMBDA f : fs[f].exists)]
    /\ ret' = Returned("Walk", "", "", FALSE, FALSE, << >>, NewPlan(<< >>))
    /\ UNCHANGED <<fs, outputs, steps, watch, once, tree, stats>>

\* One turn of generatePerRouteFiles' loop: the route is skipped, or its output
\* is written from the parsed data the walk obtained and MarkGenerated is called
PassGenerate ==
    /\ pass.pc = "walked" /\ pass.todo # << >>
    /\ \E g \in {generateRoute(CM, outputs, Head(pass.todo))} :
        /\ Becomes(g.cm)
        /\ outputs' = g.outputs
        /\ pass' = [pass EXCEPT !.todo = Tail(@),
                                !.built = IF g.generated
                                          THEN Put(@, Head(pass.todo), pass.parsed[Head(pass.todo)])
                                          ELSE @]
        /\ ret' = Returned("needsRegeneration", Head(pass.todo), "", g.generated, FALSE, << >>,
                           NewPlan(<< >>))
    /\ UNCHANGED <<fs, parsedFrom, steps, watch, once, tree, stats>>

\* The pass has gone over every route
PassDone ==
    /\ pass.pc = "walked" /\ pass.todo = << >>
    /\ pass' = [pass EXCEPT !.pc = "idle"]
    /\ ret' = Returned("OnChange", "", "", FALSE, FALSE, << >>, NewPlan(<< >>))
    /\ UNCHANGED <<nodes, fs, outputs, entries, parseEntries, genEntries, parsedFrom, steps, watch,
                   once, tree, stats>>

RaceNext ==
    \/ RaceFsWrite
    \/ RaceHandleWrite
    \/ PassWalk
    \/ PassGenerate
    \/ PassDone

RaceSpec == RaceInit /\ [][RaceNext]_vars

\* C35: when a pass has finished during which the watch loop handled a write
\* to f after the walk and before f's turn in the generation loop, and the
\* content cache holds the bytes f has on disk, then an output of f generated
\* from other bytes is reported by the ledger as needing regeneration.
C35_LateWriteStaysStale ==
    \A f \in pass.during :
        (/\ pass.pc = "idle"
         /\ fs[f].exists
         /\ Has(entries, f) /\ entries[f].ContentHash = calculateFileHash(fs[f].content)
         /\ Has(pass.built, f) /\ pass.built[f] # OnDisk(fs, f))
        => LedgerCheck(f).needs

----------------------------------------------------------------------------
(* A dependency deleted and created again                                  *)

\* The disk after f was written with content
Written(files, f, content) ==
    [files EXCEPT ![f] = [exists |-> TRUE, content |-> content, mtime |-> @.mtime + 1]]

\* C36: in every reachable state where A's parsed data names D, let the
\* manager handle the delete event of D, then, D being on disk again, its
\* create event, and then, D's bytes having changed, its write event, with no
\* call about A in between: the plan of the write event lists A.
C36_RecreatedDependency ==
    \A A \in Files, D \in Files, created \in Contents, changed \in Contents :
        (/\ A # D /\ created # changed
         /\ Has(parseEntries, A) /\ D \in Range(Extracted(parseEntries[A])))
        => LET deleted == HandleFileChange(CM, fs, D, "delete", "none").cm
               again == HandleFileChange(deleted, Written(fs, D, created), D, "create", "none").cm
               later == HandleFileChange(again, Written(Written(fs, D, created), D, changed), D,
                                         "write", "none")
           IN  ~later.err /\ later.changed /\ A \in Range(later.plan.AffectedFiles)

----------------------------------------------------------------------------
(* The shape of a plan                                                     *)

\* C37: the plan HandleFileChange or GetRegenerationPlan has just returned
\* lists no file twice in AffectedFiles, and Reasons and Priority have an entry
\* for exactly the files AffectedFiles lists.
C37_PlanShape ==
    (ret.op \in {"HandleFileChange", "GetRegenerationPlan"} /\ ~ret.err) =>
        /\ \A i, j \in 1..Len(ret.plan.AffectedFiles) :
            ret.plan.AffectedFiles[i] = ret.plan.AffectedFiles[j] => i = j
        /\ DOMAIN ret.plan.Reasons = Range(ret.plan.AffectedFiles)
        /\ DOMAIN ret.plan.Priority = Range(ret.plan.AffectedFiles)

----------------------------------------------------------------------------
(* The cycles DetectCycles returns                                         *)

\* Every file of the list has the next one among its dependencies, and the
\* last has the first
GenuineCycle(n, cycle) ==
    /\ cycle # << >>
    /\ \A i \in 1..Len(cycle) :
        /\ Has(n, cycle[i])
        /\ cycle[(i % Len(cycle)) + 1] \in Range(n[cycle[i]].Dependencies)

\* C38: in every reachable graph and for every order in which the map's keys
\* may be ranged over, every cycle DetectCycles returns is a cycle of the graph.
C38_CyclesAreGenuine ==
    \A order \in Perms(DOMAIN nodes) :
        \A cycle \in Range(DetectCycles(nodes, order)) : GenuineCycle(nodes, cycle)

\* DetectCycles has returned two cycles of a graph in which d, a file of the
\* second, also depends on a file of the first, and a third file leads into it
C38_Witness ==
    /\ ret.op = "DetectCycles" /\ Len(ret.out) = 2
    /\ Len(ret.out[1]) = 1 /\ Len(ret.out[2]) = 2
    /\ \E f \in DOMAIN nodes :
        /\ ret.out[1] = <<f>>
        /\ \E g \in Range(ret.out[2]) : f \in Range(nodes[g].Dependencies)

----------------------------------------------------------------------------
(* The global cache manager replaced and cleared                           *)

\* The instance a caller hands to SetCacheManager
Custom == 9

\* SetCacheManager(cm): the variable is assigned; cacheOnce is left as it is
SetCacheManager ==
    /\ once' = [once EXCEPT !.globalCacheManager = Custom, !.custom = Custom,
                            !.after = [t \in Goroutines |-> FALSE], !.later = {}, !.cleared = 0]
    /\ UNCHANGED session

\* ClearGlobalCache: Clear is called on the instance the variable points to
ClearGlobalCache ==
    /\ once.globalCacheManager # 0
    /\ once' = [once EXCEPT !.cleared = once.globalCacheManager]
    /\ UNCHANGED session

GlobalNext ==
    \/ OnceNext
    \/ SetCacheManager
    \/ ClearGlobalCache

GlobalSpec == GraphInit /\ [][GlobalNext]_vars

\* C39: once SetCacheManager(cm) has been called, every call of GetCacheManager
\* that began after it has returned cm, and a ClearGlobalCache after it has
\* cleared cm.
C39_SetWins ==
    once.custom # 0 =>
        /\ once.later \subseteq {once.custom}
        /\ once.cleared # 0 => once.cleared = once.custom

----------------------------------------------------------------------------
(* Concurrent lookups on one cache layer                                   *)

\* Lookups begun, at most
MaxLookups == 3

\* What the variables outside the layer's counters keep
beyondStats ==
    <<nodes, ret, fs, outputs, entries, parseEntries, genEntries, parsedFrom, steps, watch, once,
      tree, pass>>

\* GetContent or GetParsedFile begins: mutex.RLock(), which other readers do
\* not hold up; the entry is there (a hit) or is not (a miss)
LookupRLock(t) ==
    \E counter \in {"hits", "misses"} :
        /\ stats.pc[t] = "idle"
        /\ stats.started < MaxLookups
        /\ stats' = [stats EXCEPT !.readers = @ \cup {t}, !.pc[t] = "rlocked",
                                  !.counter[t] = counter, !.started = @ + 1]
        /\ UNCHANGED beyondStats

\* stats.hits++ or stats.misses++, first half: the counter is read
LookupLoad(t) ==
    /\ stats.pc[t] = "rlocked"
    /\ stats' = [stats EXCEPT !.loaded[t] = stats[stats.counter[t]], !.pc[t] = "loaded"]
    /\ UNCHANGED beyondStats

\* second half: the value read, plus one, is written back
LookupStore(t) ==
    /\ stats.pc[t] = "loaded"
    /\ stats' = [stats EXCEPT ![stats.counter[t]] = stats.loaded[t] + 1, !.pc[t] = "stored"]
    /\ UNCHANGED beyondStats

\* The lookup returns: the deferred mutex.RUnlock()
LookupRUnlock(t) ==
    /\ stats.pc[t] = "stored"
    /\ stats' = [stats EXCEPT !.readers = @ \ {t}, !.pc[t] = "idle", !.returned = @ + 1]
    /\ UNCHANGED beyondStats

StatsNext ==
    \E t \in Goroutines :
        \/ LookupRLock(t)
        \/ LookupLoad(t)
        \/ LookupStore(t)
        \/ LookupRUnlock(t)

StatsSpec == GraphInit /\ [][StatsNext]_vars

\* C40: whenever no lookup is under way, the hits and the misses add up to the
\* number of lookups that have returned, however the lookups ran beside each
\* other.
C40_CountersExact ==
    (\A t \in Goroutines : stats.pc[t] = "idle") => stats.hits + stats.misses = stats.returned

====
